---------------------------- MODULE Spec2Model ----------------------------
(***************************************************************************)
(* State-machine model of grpc-connection-manager:                         *)
(*   - the per-method circuit breaker (interceptors, CircuitBreaker.Call), *)
(*   - the retry interceptor (interceptors, RetryInterceptor),             *)
(*   - the connection registry (manager, ConnectionManager),               *)
(*   - the interceptor chain of a connection (createConnection),           *)
(*   - the per-closure breaker maps (CircuitBreakerInterceptor),           *)
(*   - the construction of a manager (Validate, NewConnectionManager),     *)
(*   - the breaker closure called concurrently (state export, return).     *)
(* Each component has its own specification (SpecCB, SpecRetry, SpecReg,   *)
(* SpecChain, SpecBreakers, SpecConfig, SpecIcpt, and SpecCBLive for the   *)
(* breaker run fairly); the variables of the components it leaves out     *)
(* stay at their initial values.                                           *)
(***************************************************************************)
EXTENDS Integers, Sequences, FiniteSets, TLC

(***************************************************************************)
(* Bounds of the model.                                                    *)
(***************************************************************************)
NumCallers == 2
MaxTime == 2
MaxThreshold == 2
MaxTimeout == 2
MaxCalls == 4

Callers == 1..NumCallers

(***************************************************************************)
(* gRPC status codes.  "OK" stands for a nil error.  "BreakerOpen" is the  *)
(* breaker's own status.Error(codes.Unavailable, "circuit breaker is      *)
(* open"): its code is Unavailable, its message tells it apart from an     *)
(* Unavailable returned by the downstream invoker.                         *)
(***************************************************************************)
Outcomes == {"OK", "Unavailable", "Internal"}

Code(e) == IF e = "BreakerOpen" THEN "Unavailable" ELSE e

DefaultBreakerCodes == {"Unavailable", "DeadlineExceeded", "ResourceExhausted"}

(***************************************************************************)
(* Circuit breaker: state of one CircuitBreaker instance, the wall clock,  *)
(* and for every concurrent caller its position in CircuitBreaker.Call     *)
(* with the locals it holds.                                               *)
(***************************************************************************)
VARIABLES
  config,       \* CircuitBreakerConfig: FailureThreshold, SuccessThreshold, Timeout
  state,        \* cb.state
  failures,     \* cb.failures
  successes,    \* cb.successes
  lastFailure,  \* cb.lastFailure
  now,          \* wall clock read by time.Since / time.Now
  pc,           \* per caller: position in Call
  lstate,       \* per caller: local `state` (snapshot of cb.state)
  llastFailure, \* per caller: local `lastFailure` (snapshot of cb.lastFailure)
  err,          \* per caller: local `err` returned by the invoker
  startedOpen,  \* per caller: at the snapshot the breaker was Open, Timeout not elapsed
  probe,        \* history, per caller: the breaker was HalfOpen when the call passed the gate
  freshFails,   \* history: the calls completed so far are n <= FailureThreshold
                \* qualifying failures and nothing else (-1: any other history)
  failsSinceSuccess, \* history: qualifying failures completed since the last success
  halfOpenSucc, \* history: successful completions while HalfOpen, since it was entered
  calls,        \* calls begun so far (bounded by MaxCalls)
  lastStep      \* history: the step just taken, the breaker state before it and
                \* the value the call returned if the step ended a call

cbVars == <<config, state, failures, successes, lastFailure, now, pc, lstate,
            llastFailure, err, startedOpen, probe, freshFails,
            failsSinceSuccess,
            halfOpenSucc, calls, lastStep>>

VARIABLES
  rcfg,        \* RetryConfig: MaxAttempts, InitialBackoff, MaxBackoff, BackoffMultiplier
  rmetrics,    \* m != nil
  rpc,         \* position in the closure: idle, invoke, select, done
  attempt,     \* local `attempt`
  backoff,     \* local `backoff`
  lastErr,     \* local `lastErr`
  ctx,         \* the caller's context: active, Canceled, DeadlineExceeded
  sel,         \* the select: none, parked, or the case that woke it (ctx, timer)
  rret,        \* the value the closure returned
  outcomes,    \* history: what each invocation of the invoker returned
  sleepLog,    \* history: the backoff of every select entered
  retryCount,  \* history: calls of m.IncrementGRPCRetry
  cancelledInSleep \* history: the context ended while the select was parked

retryVars == <<rcfg, rmetrics, rpc, attempt, backoff, lastErr, ctx, sel, rret,
               outcomes, sleepLog, retryCount, cancelledInSleep>>

(***************************************************************************)
(* Connection registry: the two maps of ConnectionManager, its RWMutex,    *)
(* the transport handles dialed so far, and for every concurrent caller    *)
(* its position in GetConnection with the locals it holds.                 *)
(***************************************************************************)
VARIABLES
  connections, \* cm.connections: service -> handle (NoHandle: no entry)
  addresses,   \* cm.addresses: service -> address (NoAddress: no entry)
  mu,          \* cm.mu: the caller holding the write lock (0: free)
  hstate,      \* per handle: transport state ("none": not dialed yet)
  hsvc,        \* per handle: the service it was dialed for
  haddr,       \* per handle: the address it was dialed to
  nextHandle,  \* the handle the next successful dial returns
  gpc,         \* per caller: position in GetConnection
  gsvc,        \* per caller: parameter serviceName
  gaddr,       \* per caller: local `address` after the first critical section
  gconn,       \* per caller: local `conn` read on the shared-lock path
  acquires,    \* number of GetConnection calls started
  namedServices,  \* the services 1..namedServices have been named in a call
  namedAddresses, \* the addresses 1..namedAddresses have been named in a call
  closeCalls,  \* history, per handle: the calls of conn.Close() by the registry
  replacing,   \* history: the stale handle closed by the caller holding the lock,
               \* and whether the entry changed since that caller's shared read
  regLast      \* history: the registry operation that returned in the last step
               \* and its result (NoReturn: no operation returned in it)

regVars == <<connections, addresses, mu, hstate, hsvc, haddr, nextHandle, gpc,
             gsvc, gaddr, gconn, acquires, namedServices,
             namedAddresses, closeCalls, replacing, regLast>>

(***************************************************************************)
(* Interceptor chain: one logical call travelling down the chain that      *)
(* createConnection builds and back up.  The breaker and the retry closure *)
(* of the chain keep their state in the variables declared above (the      *)
(* chain's caller is caller 1 of the breaker).                             *)
(***************************************************************************)
VARIABLES
  level,       \* the interceptor the call is at (0: the caller, past the last: the transport)
  dir,         \* idle, down (invoker called), in (inside the interceptor), up (returning)
  cres,        \* the error the call is returning with
  recorded,    \* history: codes passed to m.RecordGRPCRequest in this logical call
  bookkept,    \* history: the breaker's bookkeeping updates in this logical call
  failures0,   \* history: cb.failures and cb.state when this logical call began
  exported,    \* the state last passed to m.UpdateGRPCCircuitBreaker (-1: none yet)
  toggles,     \* cm.config: EnableLogging, EnableMetrics, EnableCircuitBreaker, EnableRetry
  entered      \* history: the stages entered in this logical call, in order

chainVars == <<level, dir, cres, recorded, bookkept, failures0, exported,
               toggles, entered>>

(***************************************************************************)
(* Breaker maps: every closure returned by CircuitBreakerInterceptor owns  *)
(* a map method -> *CircuitBreaker; createConnection makes one closure per *)
(* dial.                                                                   *)
(***************************************************************************)
VARIABLES
  dials,       \* createConnection calls so far; the tracked handle is the last one
  breakers,    \* per closure (dial): method -> breaker instance (0: no entry)
  bpc,         \* per caller: position in the closure: idle, read, write, call
  bcl,         \* per caller: the closure (handle) its call goes through
  bmeth,       \* per caller: parameter method
  bref,        \* per caller: local `breaker`
  nextBreaker, \* the instance the next NewCircuitBreaker returns
  bkey         \* history, per instance: the method it was created for (0: not created)

brVars == <<dials, breakers, bpc, bcl, bmeth, bref, nextBreaker, bkey>>

(***************************************************************************)
(* Construction: a configuration handed to Config.Validate or to           *)
(* NewConnectionManager, and what the call returned.                       *)
(***************************************************************************)
VARIABLES
  mcfg,        \* the *Config argument (NilConfig: nil)
  vret,        \* what Validate returned ("none": not called)
  nret         \* what NewConnectionManager returned (op "none": not called)

cfgVars == <<mcfg, vret, nret>>

\* The closure returned by CircuitBreakerInterceptor.
VARIABLES
  ipc,         \* per caller: position in the closure
  replyNil,    \* per caller: the reply argument is nil
  iret,        \* per caller: err, what breaker.Call returned
  sampled,     \* per caller: state, read from breaker.state under breaker.mu
  gauge,       \* the code last passed to m.UpdateGRPCCircuitBreaker (-1: none yet)
  ilast        \* history: the closure's most recent return

icptVars == <<ipc, replyNil, iret, sampled, gauge, ilast>>

otherThanCB == <<retryVars, regVars, chainVars, brVars, cfgVars, icptVars>>

otherThanRetry == <<cbVars, regVars, chainVars, brVars, cfgVars, icptVars>>

otherThanReg == <<cbVars, retryVars, chainVars, brVars, cfgVars, icptVars>>

otherThanChain == <<regVars, brVars, cfgVars, icptVars>>

otherThanBreakers == <<cbVars, retryVars, regVars, chainVars, cfgVars, icptVars>>

otherThanConfig == <<cbVars, retryVars, regVars, chainVars, brVars, icptVars>>

otherThanIcpt == <<retryVars, regVars, chainVars, brVars, cfgVars>>

StateClosed == "Closed"
StateOpen == "Open"
StateHalfOpen == "HalfOpen"

\* The zero time.Time of a freshly constructed breaker.
ZeroTime == -1

\* time.Since(t) at clock value `clock`; the zero time lies far in the past.
Since(t, clock) == IF t = ZeroTime THEN clock + MaxTime + MaxTimeout + 1 ELSE clock - t

\* NewCircuitBreaker: StateClosed, zero counters, zero lastFailure.
NewCircuitBreaker == [state |-> StateClosed, failures |-> 0, successes |-> 0,
                      lastFailure |-> ZeroTime]

\* Call, the gate: the Open branch rejects while the snapshot's lastFailure
\* is less than Timeout old.
Rejects(st, lf, clock, cfg) == st = StateOpen /\ Since(lf, clock) < cfg.Timeout

\* Qualifying of a breaker that counts every error.
Qualifying_AnyError(e) == e # "OK"

\* The code is in cb.config.RetryableCodes (a qualifying failure).
Qualifying(e) == e # "OK" /\ Code(e) \in DefaultBreakerCodes

\* OnError with the threshold compared by > instead of >=.
OnError_StrictThreshold(cb, e, clock, cfg) ==
  IF Qualifying(e)
  THEN IF cb.state = StateHalfOpen
       THEN [cb EXCEPT !.state = StateOpen, !.failures = 0, !.lastFailure = clock]
       ELSE IF cb.failures + 1 > cfg.FailureThreshold
            THEN [cb EXCEPT !.state = StateOpen, !.failures = cb.failures + 1,
                            !.lastFailure = clock]
            ELSE [cb EXCEPT !.failures = cb.failures + 1, !.lastFailure = clock]
  ELSE cb

\* OnError with the HalfOpen branch leaving the incremented failure count.
OnError_NoReset(cb, e, clock, cfg) ==
  IF Qualifying(e)
  THEN IF cb.state = StateHalfOpen
       THEN [cb EXCEPT !.state = StateOpen, !.failures = cb.failures + 1,
                       !.lastFailure = clock]
       ELSE IF cb.failures + 1 >= cfg.FailureThreshold
            THEN [cb EXCEPT !.state = StateOpen, !.failures = cb.failures + 1,
                            !.lastFailure = clock]
            ELSE [cb EXCEPT !.failures = cb.failures + 1, !.lastFailure = clock]
  ELSE cb

\* Call, the bookkeeping of a call that returned error e (err != nil).
OnError(cb, e, clock, cfg) ==
  IF Qualifying(e)
  THEN IF cb.state = StateHalfOpen
       THEN [cb EXCEPT !.state = StateOpen, !.failures = 0, !.lastFailure = clock]
       ELSE IF cb.failures + 1 >= cfg.FailureThreshold
            THEN [cb EXCEPT !.state = StateOpen, !.failures = cb.failures + 1,
                            !.lastFailure = clock]
            ELSE [cb EXCEPT !.failures = cb.failures + 1, !.lastFailure = clock]
  ELSE cb

\* OnSuccess with the threshold compared by > instead of >=.
OnSuccess_StrictThreshold(cb, cfg) ==
  IF cb.state = StateHalfOpen
  THEN IF cb.successes + 1 > cfg.SuccessThreshold
       THEN [cb EXCEPT !.failures = 0, !.successes = cb.successes + 1,
                       !.state = StateClosed]
       ELSE [cb EXCEPT !.failures = 0, !.successes = cb.successes + 1]
  ELSE [cb EXCEPT !.failures = 0]

\* OnSuccess clearing the failure count only, in every state.
OnSuccess_NeverCloses(cb, cfg) == [cb EXCEPT !.failures = 0]

\* Call, the bookkeeping of a call that returned nil.
OnSuccess(cb, cfg) ==
  IF cb.state = StateHalfOpen
  THEN IF cb.successes + 1 >= cfg.SuccessThreshold
       THEN [cb EXCEPT !.failures = 0, !.successes = cb.successes + 1,
                       !.state = StateClosed]
       ELSE [cb EXCEPT !.failures = 0, !.successes = cb.successes + 1]
  ELSE [cb EXCEPT !.failures = 0]

\* Call, the second critical section: Open becomes HalfOpen, successes reset.
ToHalfOpen(cb) ==
  IF cb.state = StateOpen
  THEN [cb EXCEPT !.state = StateHalfOpen, !.successes = 0]
  ELSE cb

Breaker == [state |-> state, failures |-> failures, successes |-> successes,
            lastFailure |-> lastFailure]

SetBreaker(cb) ==
  /\ state' = cb.state
  /\ failures' = cb.failures
  /\ successes' = cb.successes
  /\ lastFailure' = cb.lastFailure

\* Call: first critical section, the snapshot of cb.state and cb.lastFailure.
Snapshot(c) ==
  /\ pc[c] = "idle"
  /\ pc' = [pc EXCEPT ![c] = "check"]
  /\ lstate' = [lstate EXCEPT ![c] = state]
  /\ llastFailure' = [llastFailure EXCEPT ![c] = lastFailure]
  /\ startedOpen' = [startedOpen EXCEPT ![c] =
                       state = StateOpen /\ Since(lastFailure, now) < config.Timeout]
  /\ lastStep' = [op |-> "begin", from |-> state, ret |-> "none"]
  /\ UNCHANGED <<failsSinceSuccess, config, state, failures, successes, lastFailure, now, err,
                 freshFails, halfOpenSucc, probe>>

\* Call is entered, one of a bounded number of calls.
CallBeginStep(c) ==
  /\ calls < MaxCalls
  /\ calls' = calls + 1
  /\ Snapshot(c)

\* CallBeginStep, as a step of the breaker on its own.
CallBegin(c) == CallBeginStep(c) /\ UNCHANGED otherThanCB

\* Call: `if state == StateOpen`, on the snapshot; time.Since is read here.
\* A rejected call returns at once; the snapshot is not read again after
\* this step.
CallCheckStep(c) ==
  /\ pc[c] = "check"
  /\ IF Rejects(lstate[c], llastFailure[c], now, config)
     THEN /\ pc' = [pc EXCEPT ![c] = "idle"]
          /\ freshFails' = -1
          /\ lastStep' = [op |-> "reject", from |-> state, ret |-> "BreakerOpen"]
     ELSE /\ pc' = [pc EXCEPT ![c] = IF lstate[c] = StateOpen THEN "lock" ELSE "invoke"]
          /\ freshFails' = freshFails
          /\ lastStep' = [op |-> "admit", from |-> state, ret |-> "none"]
  /\ lstate' = [lstate EXCEPT ![c] = StateClosed]
  /\ llastFailure' = [llastFailure EXCEPT ![c] = ZeroTime]
  /\ startedOpen' = [startedOpen EXCEPT ![c] = FALSE]
  /\ probe' = [probe EXCEPT ![c] = /\ ~Rejects(lstate[c], llastFailure[c], now, config)
                                   /\ lstate[c] # StateOpen
                                   /\ state = StateHalfOpen]
  /\ UNCHANGED <<failsSinceSuccess, calls, config, state, failures, successes, lastFailure, now, err,
                 halfOpenSucc>>

\* CallCheckStep, as a step of the breaker on its own.
CallCheck(c) == CallCheckStep(c) /\ UNCHANGED otherThanCB

\* Call: second critical section, taken when the snapshot was Open and old.
CallHalfOpen(c) ==
  /\ pc[c] = "lock"
  /\ SetBreaker(ToHalfOpen(Breaker))
  /\ pc' = [pc EXCEPT ![c] = "invoke"]
  /\ halfOpenSucc' = IF ToHalfOpen(Breaker).state = StateHalfOpen /\ state # StateHalfOpen
                     THEN 0 ELSE halfOpenSucc
  /\ lastStep' = [op |-> "halfopen", from |-> state, ret |-> "none"]
  /\ probe' = [probe EXCEPT ![c] = ToHalfOpen(Breaker).state = StateHalfOpen]
  /\ UNCHANGED <<failsSinceSuccess, calls, config, now, lstate, llastFailure, err, startedOpen, freshFails>>
  /\ UNCHANGED otherThanCB

\* Call: err := invoker(...), the downstream call returns e.
CallInvoke(c, e) ==
  /\ pc[c] = "invoke"
  /\ pc' = [pc EXCEPT ![c] = "complete"]
  /\ err' = [err EXCEPT ![c] = e]
  /\ lastStep' = [op |-> "invoke", from |-> state, ret |-> "none"]
  /\ UNCHANGED <<failsSinceSuccess, calls, config, state, failures, successes, lastFailure, now, lstate,
                 llastFailure, startedOpen, probe, freshFails, halfOpenSucc>>
  /\ UNCHANGED otherThanCB

\* Call: third critical section, the bookkeeping, and the return of err.
Bookkeeping(c) ==
  /\ pc[c] = "complete"
  /\ SetBreaker(IF err[c] = "OK" THEN OnSuccess(Breaker, config)
                ELSE OnError(Breaker, err[c], now, config))
  /\ pc' = [pc EXCEPT ![c] = "idle"]
  /\ err' = [err EXCEPT ![c] = "OK"]
  /\ lastStep' = [op |-> IF err[c] = "OK" THEN "success"
                         ELSE IF Qualifying(err[c]) THEN "failure" ELSE "ignored",
                  from |-> state, ret |-> err[c]]
  /\ probe' = [probe EXCEPT ![c] = FALSE]
  /\ UNCHANGED <<config, now, lstate, llastFailure, startedOpen>>

\* Call returns; the histories of the bounded runs are brought up to date.
CallCompleteStep(c) ==
  /\ Bookkeeping(c)
  /\ freshFails' = IF Qualifying(err[c]) /\ freshFails >= 0
                      /\ freshFails < config.FailureThreshold
                   THEN freshFails + 1 ELSE -1
  /\ failsSinceSuccess' = IF err[c] = "OK" THEN 0
                          ELSE IF Qualifying(err[c]) THEN failsSinceSuccess + 1
                          ELSE failsSinceSuccess
  /\ halfOpenSucc' = IF err[c] = "OK" /\ state = StateHalfOpen
                     THEN halfOpenSucc + 1 ELSE halfOpenSucc
  /\ UNCHANGED calls

\* CallCompleteStep, as a step of the breaker on its own.
CallComplete(c) == CallCompleteStep(c) /\ UNCHANGED otherThanCB

\* The wall clock advances.
Tick ==
  /\ now < MaxTime
  /\ now' = now + 1
  /\ lastStep' = [op |-> "tick", from |-> state, ret |-> "none"]
  /\ UNCHANGED <<failsSinceSuccess, calls, config, state, failures, successes, lastFailure, pc, lstate,
                 llastFailure, err, startedOpen, probe, freshFails, halfOpenSucc>>
  /\ UNCHANGED otherThanCB

\* Recovery runs: calls without end.  The histories that count calls are
\* left alone, and the clock keeps the differences the gate compares.
CallBeginLive(c) ==
  /\ Snapshot(c)
  /\ UNCHANGED calls
  /\ UNCHANGED otherThanCB

CallCompleteLive(c) ==
  /\ Bookkeeping(c)
  /\ UNCHANGED <<calls, freshFails, failsSinceSuccess, halfOpenSucc>>
  /\ UNCHANGED otherThanCB

\* A time one unit further in the past, once the clock reading is at its
\* bound: ages of MaxTime or more all compare alike with every Timeout.
Older(t) == IF t = ZeroTime \/ t = 0 THEN t ELSE t - 1

\* The wall clock advances, without end.
TickLive ==
  /\ IF now < MaxTime
     THEN /\ now' = now + 1
          /\ UNCHANGED <<lastFailure, llastFailure>>
     ELSE /\ now' = now
          /\ lastFailure' = Older(lastFailure)
          /\ llastFailure' = [c \in Callers |-> Older(llastFailure[c])]
  /\ lastStep' = [op |-> "tick", from |-> state, ret |-> "none"]
  /\ UNCHANGED <<failsSinceSuccess, calls, config, state, failures, successes, pc, lstate,
                 err, startedOpen, probe, freshFails, halfOpenSucc>>
  /\ UNCHANGED otherThanCB

NextCBLive ==
  \/ \E c \in Callers : CallBeginLive(c)
  \/ \E c \in Callers : CallCheck(c)
  \/ \E c \in Callers : CallHalfOpen(c)
  \/ \E c \in Callers, e \in Outcomes : CallInvoke(c, e)
  \/ \E c \in Callers : CallCompleteLive(c)
  \/ TickLive

NextCB ==
  \/ \E c \in Callers : CallBegin(c)
  \/ \E c \in Callers : CallCheck(c)
  \/ \E c \in Callers : CallHalfOpen(c)
  \/ \E c \in Callers, e \in Outcomes : CallInvoke(c, e)
  \/ \E c \in Callers : CallComplete(c)
  \/ Tick

(***************************************************************************)
(* Retry interceptor: one logical call through the closure returned by     *)
(* RetryInterceptor.  An error value carries the number of the invocation  *)
(* that produced it, so that "the error of the N-th attempt" is told apart *)
(* from an equal-looking error of an earlier attempt.                      *)
(***************************************************************************)
MaxRetryAttempts == 3
MaxBackoffUnits == 2
MaxMultiplier == 2

Nil == [kind |-> "nil", code |-> "OK", id |-> 0]

\* A status error with the given code, returned by invocation number n.
StatusErr(code, n) == [kind |-> "status", code |-> code, id |-> n]

\* An error status.FromError does not recognise (ok == false).
PlainErr(n) == [kind |-> "plain", code |-> "Unknown", id |-> n]

\* ctx.Err() of a context that ended as k.
CtxErr(k) == [kind |-> "ctx", code |-> k, id |-> 0]

\* What one invocation of the wrapped call may return.
InvokerResults(n) ==
  {Nil, StatusErr("Unavailable", n), StatusErr("Internal", n), PlainErr(n)}

DefaultRetryCodes == {"Unavailable", "DeadlineExceeded", "ResourceExhausted", "Aborted"}

\* The loop over cfg.RetryableCodes.
Retryable(e) == e.kind = "status" /\ e.code \in DefaultRetryCodes

\* backoff = time.Duration(float64(backoff) * cfg.BackoffMultiplier), capped.
NextBackoff(b, cfg) ==
  IF b * cfg.BackoffMultiplier > cfg.MaxBackoff THEN cfg.MaxBackoff
  ELSE b * cfg.BackoffMultiplier

\* AfterAttempt returning lastErr where the code returns nil.
AfterAttempt_ReturnsLastErr(e, att, last, cfg) ==
  IF e = Nil THEN [do |-> "return", val |-> last]
  ELSE IF e.kind = "plain" THEN [do |-> "return", val |-> e]
  ELSE IF ~Retryable(e) \/ att >= cfg.MaxAttempts THEN [do |-> "return", val |-> e]
  ELSE [do |-> "sleep", val |-> e]

\* AfterAttempt with `&&` where the code has `||`.
AfterAttempt_AndForOr(e, att, last, cfg) ==
  IF e = Nil THEN [do |-> "return", val |-> Nil]
  ELSE IF e.kind = "plain" THEN [do |-> "return", val |-> e]
  ELSE IF ~Retryable(e) /\ att >= cfg.MaxAttempts THEN [do |-> "return", val |-> e]
  ELSE [do |-> "sleep", val |-> e]

\* AfterAttempt with `attempt > cfg.MaxAttempts` where the code has `>=`.
AfterAttempt_StrictMax(e, att, last, cfg) ==
  IF e = Nil THEN [do |-> "return", val |-> Nil]
  ELSE IF e.kind = "plain" THEN [do |-> "return", val |-> e]
  ELSE IF ~Retryable(e) \/ att > cfg.MaxAttempts THEN [do |-> "return", val |-> e]
  ELSE [do |-> "sleep", val |-> e]

\* The loop body from the invoker's return to the select: what the closure
\* does with the result e of attempt att (last: lastErr before the attempt).
AfterAttempt(e, att, last, cfg) ==
  IF e = Nil THEN [do |-> "return", val |-> Nil]
  ELSE IF e.kind = "plain" THEN [do |-> "return", val |-> e]
  ELSE IF ~Retryable(e) \/ att >= cfg.MaxAttempts THEN [do |-> "return", val |-> e]
  ELSE [do |-> "sleep", val |-> e]

\* SelectWake taking the timer case whatever woke the select (a plain sleep).
SelectWake_IgnoresCtx(case, c) == [do |-> "continue", val |-> Nil]

\* The select's two cases: <-ctx.Done() returns ctx.Err(), <-time.After
\* falls through to the backoff update.
SelectWake(case, c) ==
  IF case = "ctx" THEN [do |-> "return", val |-> CtxErr(c)]
  ELSE [do |-> "continue", val |-> Nil]

\* The closure is entered: lastErr, backoff, attempt := 1 and the first test
\* of the loop condition; when it fails the closure returns lastErr.
RetryBegin ==
  /\ rpc = "idle"
  /\ attempt' = 1
  /\ backoff' = rcfg.InitialBackoff
  /\ lastErr' = Nil
  /\ IF 1 <= rcfg.MaxAttempts
     THEN rpc' = "invoke" /\ rret' = rret
     ELSE rpc' = "done" /\ rret' = Nil
  /\ UNCHANGED <<rcfg, rmetrics, ctx, sel, outcomes, sleepLog, retryCount,
                 cancelledInSleep>>
  /\ UNCHANGED otherThanRetry

\* One attempt: the invoker returns e, and the loop body runs up to its
\* return or to the select.  A select entered with the context already
\* ended takes the ctx case; with a timer of no duration either case may
\* be ready.
RetryAttempt(e) ==
  /\ rpc = "invoke"
  /\ outcomes' = Append(outcomes, e)
  /\ LET r == AfterAttempt(e, attempt, lastErr, rcfg) IN
       /\ lastErr' = IF e = Nil THEN lastErr ELSE e
       /\ IF r.do = "return"
          THEN /\ rpc' = "done"
               /\ rret' = r.val
               /\ UNCHANGED <<sel, sleepLog, retryCount>>
          ELSE /\ rpc' = "select"
               /\ rret' = rret
               /\ retryCount' = IF rmetrics THEN retryCount + 1 ELSE retryCount
               /\ sleepLog' = Append(sleepLog, backoff)
               /\ \/ ctx = "active" /\ sel' = "parked"
                  \/ ctx # "active" /\ sel' = "ctx"
                  \/ ctx # "active" /\ backoff <= 0 /\ sel' = "timer"
  /\ UNCHANGED <<rcfg, rmetrics, attempt, backoff, ctx, cancelledInSleep>>
  /\ UNCHANGED otherThanRetry

\* time.After(backoff) fires while the select is parked.
RetryTimer ==
  /\ rpc = "select" /\ sel = "parked"
  /\ sel' = "timer"
  /\ UNCHANGED <<rcfg, rmetrics, rpc, attempt, backoff, lastErr, ctx, rret,
                 outcomes, sleepLog, retryCount, cancelledInSleep>>
  /\ UNCHANGED otherThanRetry

\* The caller cancels, or the deadline fires: ctx.Done() is closed.  A
\* select parked on it is woken with the ctx case.
CtxDone(k) ==
  /\ ctx = "active"
  /\ rpc # "done"
  /\ ctx' = k
  /\ sel' = IF sel = "parked" THEN "ctx" ELSE sel
  /\ cancelledInSleep' = (sel = "parked")
  /\ UNCHANGED <<rcfg, rmetrics, rpc, attempt, backoff, lastErr, rret,
                 outcomes, sleepLog, retryCount>>
  /\ UNCHANGED otherThanRetry

\* The select returns: ctx.Err(), or the backoff update, attempt++ and the
\* next test of the loop condition.
RetryWake ==
  /\ rpc = "select" /\ sel \in {"ctx", "timer"}
  /\ sel' = "none"
  /\ LET r == SelectWake(sel, ctx) IN
       IF r.do = "return"
       THEN /\ rpc' = "done"
            /\ rret' = r.val
            /\ UNCHANGED <<attempt, backoff>>
       ELSE /\ backoff' = NextBackoff(backoff, rcfg)
            /\ attempt' = attempt + 1
            /\ IF attempt + 1 <= rcfg.MaxAttempts
               THEN rpc' = "invoke" /\ rret' = rret
               ELSE rpc' = "done" /\ rret' = lastErr
  /\ UNCHANGED <<rcfg, rmetrics, lastErr, ctx, outcomes, sleepLog, retryCount,
                 cancelledInSleep>>
  /\ UNCHANGED otherThanRetry

NextRetry ==
  \/ RetryBegin
  \/ \E e \in InvokerResults(Len(outcomes) + 1) : RetryAttempt(e)
  \/ RetryTimer
  \/ \E k \in {"Canceled", "DeadlineExceeded"} : CtxDone(k)
  \/ RetryWake

(***************************************************************************)
(* Connection registry: operations of ConnectionManager.  A transport      *)
(* handle is a number; the handles are dialed in increasing order.         *)
(***************************************************************************)
NumServices == 2
NumAddresses == 2
NumRegCallers == 2
MaxAcquires == 2

Services == 1..NumServices

\* Non-empty addresses; NoAddress is the empty string.
Addresses == 1..NumAddresses

RegCallers == 1..NumRegCallers

\* Every GetConnection dials at most once.
Handles == 1..MaxAcquires

NoHandle == 0

NoAddress == 0

Max(x, y) == IF x >= y THEN x ELSE y

\* No registry operation returned in the step.
\* The absent entry of a health report, and the report without entries.
NoEntry == [present |-> FALSE, State |-> "", Healthy |-> FALSE, Error |-> ""]

NoReport == [s \in Services |-> NoEntry]

NoReturn == [op |-> "none", res |-> "none", h |-> NoHandle, replaced |-> NoHandle,
             raced |-> FALSE, failed |-> {}, report |-> NoReport]

\* connectivity.State of a live handle; a closed handle is in Shutdown.
LiveStates == {"Idle", "Connecting", "Ready", "TransientFailure"}

\* Usable that takes an Idle handle for stale.
Usable_ReadyOnly(st) == st = "Ready"

\* state == connectivity.Ready || state == connectivity.Idle
Usable(st) == st = "Ready" \/ st = "Idle"

\* The handle is dialed and not closed.
Live(h) == hstate[h] \in LiveStates

\* conn.Close(): the handle ends in Shutdown; the call fails
\* (ErrClientConnClosing) when the handle was closed before.
CloseFails(h) == hstate[h] = "Shutdown"

\* The attributes of the handles, with those of the handles in hs, which the
\* registry has closed and forgotten, cleared.
Forget(attr, hs, none) == [h \in Handles |-> IF h \in hs THEN none ELSE attr[h]]

\* The calls of conn.Close() made so far, after one more on every handle in hs.
Called(made, hs) == [h \in Handles |-> IF h \in hs THEN made[h] + 1 ELSE made[h]]

\* Deleted that leaves the entry in the map.
Deleted_Kept(m, s) == m

\* delete(cm.connections, serviceName)
Deleted(m, s) == [m EXCEPT ![s] = NoHandle]

\* LockedStep that drops a stale handle without closing it.
LockedStep_NoClose(conn, st) ==
  IF conn = NoHandle THEN "dial"
  ELSE IF Usable(st) THEN "return"
  ELSE "dial"

\* LockedStep without the test of the state under the exclusive lock.
LockedStep_NoRecheck(conn, st) ==
  IF conn = NoHandle THEN "dial"
  ELSE "replace"

\* GetConnection under the exclusive lock: what is done with the entry conn
\* of the map, whose handle is in state st.
LockedStep(conn, st) ==
  IF conn = NoHandle THEN "dial"
  ELSE IF Usable(st) THEN "return"
  ELSE "replace"

\* AddressMissing that lets the empty address through.
AddressMissing_Never(address) == FALSE

\* GetConnection: address == "" after the first critical section.
AddressMissing(address) == address = NoAddress

\* Stored that keeps an address already stored for the service.
Stored_IfAbsent(addrs, s, a) ==
  IF a # NoAddress /\ addrs[s] = NoAddress THEN [addrs EXCEPT ![s] = a] ELSE addrs

\* Stored that drops the stored address when the call names none.
Stored_ForgetsOnEmpty(addrs, s, a) ==
  IF a # NoAddress THEN [addrs EXCEPT ![s] = a] ELSE [addrs EXCEPT ![s] = NoAddress]

\* GetConnection, first critical section: cm.addresses after it, for the
\* parameters serviceName s and address a.
Stored(addrs, s, a) ==
  IF a # NoAddress THEN [addrs EXCEPT ![s] = a] ELSE addrs

\* GetConnection, first critical section and the test of the address:
\* a non-empty address is stored, an empty one is looked up; with no address
\* the call returns the "address not provided" error.  Callers not inside a
\* call hold no state and are interchangeable: the first of them makes the call.
\* Service names and addresses are interchangeable too: a call names one that
\* was named before, or the first of those that were not.
GetBegin(c, s, a) ==
  /\ gpc[c] = "idle"
  /\ \A c2 \in RegCallers : c2 < c => gpc[c2] # "idle"
  /\ s <= namedServices + 1
  /\ a <= namedAddresses + 1
  /\ namedServices' = Max(namedServices, s)
  /\ namedAddresses' = Max(namedAddresses, a)
  /\ mu = 0
  /\ acquires < MaxAcquires
  /\ acquires' = acquires + 1
  /\ addresses' = Stored(addresses, s, a)
  /\ LET address == IF a # NoAddress THEN a ELSE addresses[s] IN
       IF AddressMissing(address)
       THEN /\ regLast' = [op |-> "acquire", res |-> "AddressNotFound",
                           h |-> NoHandle, replaced |-> NoHandle, raced |-> FALSE, failed |-> {}, report |-> NoReport]
            /\ UNCHANGED <<gpc, gsvc, gaddr>>
       ELSE /\ gpc' = [gpc EXCEPT ![c] = "lookup"]
            /\ gsvc' = [gsvc EXCEPT ![c] = s]
            /\ gaddr' = [gaddr EXCEPT ![c] = address]
            /\ regLast' = NoReturn
  /\ UNCHANGED <<connections, mu, hstate, hsvc, haddr, nextHandle, gconn, replacing>>
  /\ UNCHANGED closeCalls
  /\ UNCHANGED otherThanReg

\* GetConnection, shared-lock section: conn := cm.connections[serviceName].
GetLookup(c) ==
  /\ gpc[c] = "lookup"
  /\ mu = 0
  /\ gconn' = [gconn EXCEPT ![c] = connections[gsvc[c]]]
  /\ gpc' = [gpc EXCEPT ![c] = "fast"]
  /\ UNCHANGED <<connections, addresses, mu, hstate, hsvc, haddr, nextHandle,
                 gsvc, gaddr, acquires, replacing>>
  /\ regLast' = NoReturn
  /\ UNCHANGED <<namedServices, namedAddresses>>
  /\ UNCHANGED closeCalls
  /\ UNCHANGED otherThanReg

\* GetConnection, fast path: conn.GetState() outside any lock.
GetFastPath(c) ==
  /\ gpc[c] = "fast"
  /\ IF gconn[c] # NoHandle /\ Usable(hstate[gconn[c]])
     THEN /\ gpc' = [gpc EXCEPT ![c] = "idle"]
          /\ regLast' = [op |-> "acquire", res |-> "conn",
                         h |-> gconn[c], replaced |-> NoHandle, raced |-> FALSE, failed |-> {}, report |-> NoReport]
          /\ gsvc' = [gsvc EXCEPT ![c] = 1]
          /\ gaddr' = [gaddr EXCEPT ![c] = NoAddress]
          /\ gconn' = [gconn EXCEPT ![c] = NoHandle]
     ELSE /\ gpc' = [gpc EXCEPT ![c] = "wlock"]
          /\ regLast' = NoReturn
          /\ UNCHANGED <<gsvc, gaddr, gconn>>
  /\ UNCHANGED <<connections, addresses, mu, hstate, hsvc, haddr, nextHandle,
                 acquires, replacing>>
  /\ UNCHANGED <<namedServices, namedAddresses>>
  /\ UNCHANGED closeCalls
  /\ UNCHANGED otherThanReg

\* GetConnection, cm.mu.Lock() and the re-check: a usable handle is
\* returned, a stale one is closed and deleted, and the dial starts with
\* the lock held (the unlock is deferred).
GetLocked(c) ==
  /\ gpc[c] = "wlock"
  /\ mu = 0
  /\ LET conn == connections[gsvc[c]]
         step == LockedStep(conn, IF conn = NoHandle THEN "none" ELSE hstate[conn])
     IN
       IF step = "return"
       THEN /\ gpc' = [gpc EXCEPT ![c] = "idle"]
            /\ regLast' = [op |-> "acquire", res |-> "conn",
                           h |-> conn, replaced |-> NoHandle,
                           raced |-> gconn[c] # conn, failed |-> {}, report |-> NoReport]
            /\ gsvc' = [gsvc EXCEPT ![c] = 1]
            /\ gaddr' = [gaddr EXCEPT ![c] = NoAddress]
            /\ UNCHANGED <<mu, connections, hstate, hsvc, haddr, replacing,
                           closeCalls>>
       ELSE /\ gpc' = [gpc EXCEPT ![c] = "dial"]
            /\ mu' = c
            /\ regLast' = NoReturn
            /\ UNCHANGED <<gsvc, gaddr>>
            /\ IF step = "replace"
               THEN /\ hstate' = [hstate EXCEPT ![conn] = "Shutdown"]
                    /\ closeCalls' = Called(closeCalls, {conn})
                    /\ hsvc' = Forget(hsvc, {conn}, 1)
                    /\ haddr' = Forget(haddr, {conn}, NoAddress)
                    /\ connections' = [connections EXCEPT ![gsvc[c]] = NoHandle]
                    /\ replacing' = [h |-> conn, raced |-> gconn[c] # conn]
               ELSE UNCHANGED <<hstate, hsvc, haddr, connections, replacing,
                                closeCalls>>
  /\ gconn' = [gconn EXCEPT ![c] = NoHandle]
  /\ UNCHANGED <<addresses, nextHandle, acquires>>
  /\ UNCHANGED <<namedServices, namedAddresses>>
  /\ UNCHANGED otherThanReg

\* DialFails that misses the error.
DialFails_Never(ok) == FALSE

\* GetConnection: err != nil after createConnection, for a dial that
\* succeeds (ok) or not.
DialFails(ok) == ~ok

\* GetConnection, createConnection returns: on an error nothing is stored,
\* otherwise the new handle is put in the map; the deferred unlock runs.
GetDial(c, ok) ==
  /\ gpc[c] = "dial"
  /\ mu = c
  /\ IF ~DialFails(ok)
     THEN /\ hstate' = [hstate EXCEPT ![nextHandle] = "Idle"]
          /\ hsvc' = [hsvc EXCEPT ![nextHandle] = gsvc[c]]
          /\ haddr' = [haddr EXCEPT ![nextHandle] = gaddr[c]]
          /\ connections' = [connections EXCEPT ![gsvc[c]] = nextHandle]
          /\ nextHandle' = nextHandle + 1
          /\ regLast' = [op |-> "acquire", res |-> "conn",
                         h |-> nextHandle, replaced |-> replacing.h,
                         raced |-> replacing.raced, failed |-> {}, report |-> NoReport]
     ELSE /\ regLast' = [op |-> "acquire", res |-> "DialFailed",
                         h |-> NoHandle, replaced |-> replacing.h,
                         raced |-> replacing.raced, failed |-> {}, report |-> NoReport]
          /\ UNCHANGED <<hstate, hsvc, haddr, connections, nextHandle>>
  /\ mu' = 0
  /\ replacing' = [h |-> NoHandle, raced |-> FALSE]
  /\ gpc' = [gpc EXCEPT ![c] = "idle"]
  /\ gsvc' = [gsvc EXCEPT ![c] = 1]
  /\ gaddr' = [gaddr EXCEPT ![c] = NoAddress]
  /\ UNCHANGED <<addresses, gconn, acquires>>
  /\ UNCHANGED <<namedServices, namedAddresses>>
  /\ UNCHANGED closeCalls
  /\ UNCHANGED otherThanReg

\* CloseConnection: the entry is deleted and its handle, if any, closed.
CloseConnection(s) ==
  /\ mu = 0
  /\ s <= namedServices + 1
  /\ namedServices' = Max(namedServices, s)
  /\ LET conn == connections[s] IN
       /\ connections' = Deleted(connections, s)
       /\ hstate' = IF conn # NoHandle THEN [hstate EXCEPT ![conn] = "Shutdown"]
                    ELSE hstate
       /\ closeCalls' = Called(closeCalls, {conn})
       /\ hsvc' = Forget(hsvc, {conn}, 1)
       /\ haddr' = Forget(haddr, {conn}, NoAddress)
       /\ regLast' = [op |-> "release", res |-> IF conn # NoHandle /\ CloseFails(conn) THEN "error"
                              ELSE "ok",
                      h |-> conn, replaced |-> NoHandle, raced |-> FALSE,
                      failed |-> IF conn # NoHandle /\ CloseFails(conn) THEN {conn}
                                 ELSE {},
                      report |-> NoReport]
  /\ UNCHANGED <<addresses, mu, nextHandle, gpc, gsvc, gaddr, gconn, acquires, replacing>>
  /\ UNCHANGED namedAddresses
  /\ UNCHANGED otherThanReg

\* The services of the sequence ord whose handle fails to close.
RECURSIVE FailingCloses(_)
FailingCloses(ord) ==
  IF ord = <<>> THEN <<>>
  ELSE LET rest == FailingCloses(Tail(ord)) IN
       IF CloseFails(connections[Head(ord)]) THEN <<Head(ord)>> \o rest ELSE rest

\* The orders in which `range cm.connections` may visit the tracked services.
IterationOrders ==
  LET tracked == {s \in Services : connections[s] # NoHandle} IN
  {ord \in [1..Cardinality(tracked) -> tracked] :
     \A i, j \in 1..Cardinality(tracked) : i # j => ord[i] # ord[j]}

\* Attempted of a loop that stops at the first failing close.
Attempted_UntilFailure(ord) ==
  {connections[ord[i]] : i \in {j \in 1..Len(ord) :
     \A k \in 1..(j - 1) : ~CloseFails(connections[ord[k]])}}

\* Close: the handles on which the loop over cm.connections, visiting the
\* services in the order ord, calls conn.Close().
Attempted(ord) == {connections[ord[i]] : i \in 1..Len(ord)}

\* GetConnectionsCount: len(cm.connections).
GetConnectionsCount == Cardinality({s \in Services : connections[s] # NoHandle})

\* Close: every tracked handle is closed, in the map's iteration order ord;
\* lastErr is overwritten by every failing close; both maps are replaced by
\* empty ones.
Close(ord) ==
  /\ mu = 0
  /\ LET failing == FailingCloses(ord) IN
       regLast' = [op |-> "releaseAll", res |-> IF failing = <<>> THEN "ok" ELSE "error",
                   h |-> IF failing = <<>> THEN NoHandle
                         ELSE connections[failing[Len(failing)]],
                   replaced |-> NoHandle, raced |-> FALSE,
                   failed |-> {connections[failing[i]] : i \in 1..Len(failing)},
                   report |-> NoReport]
  /\ LET tracked == {connections[s] : s \in Services} IN
       /\ hstate' = Forget(hstate, Attempted(ord), "Shutdown")
       /\ closeCalls' = Called(closeCalls, Attempted(ord))
       /\ hsvc' = Forget(hsvc, tracked, 1)
       /\ haddr' = Forget(haddr, tracked, NoAddress)
  /\ connections' = [s \in Services |-> NoHandle]
  /\ addresses' = [s \in Services |-> NoAddress]
  /\ UNCHANGED <<mu, nextHandle, gpc, gsvc, gaddr, gconn, acquires,
                 replacing>>
  /\ UNCHANGED <<namedServices, namedAddresses>>
  /\ UNCHANGED otherThanReg

\* The transport moves a live handle to another connectivity state.
TransportState(h, st) ==
  /\ Live(h)
  /\ hstate[h] # st
  /\ hstate' = [hstate EXCEPT ![h] = st]
  /\ UNCHANGED <<connections, addresses, mu, hsvc, haddr, nextHandle, gpc, gsvc,
                 gaddr, gconn, acquires, replacing>>
  /\ regLast' = NoReturn
  /\ UNCHANGED <<namedServices, namedAddresses>>
  /\ UNCHANGED closeCalls
  /\ UNCHANGED otherThanReg

\* A holder of the handle returned by GetConnection closes it itself.
HolderCloses(h) ==
  /\ Live(h)
  /\ hstate' = [hstate EXCEPT ![h] = "Shutdown"]
  /\ UNCHANGED <<connections, addresses, mu, hsvc, haddr, nextHandle, gpc, gsvc,
                 gaddr, gconn, acquires, replacing>>
  /\ regLast' = NoReturn
  /\ UNCHANGED <<namedServices, namedAddresses>>
  /\ UNCHANGED closeCalls
  /\ UNCHANGED otherThanReg

\* connectivity.State.String().
StateString(st) ==
  CASE st = "Idle" -> "IDLE"
    [] st = "Connecting" -> "CONNECTING"
    [] st = "Ready" -> "READY"
    [] st = "TransientFailure" -> "TRANSIENT_FAILURE"
    [] st = "Shutdown" -> "SHUTDOWN"
    [] OTHER -> "INVALID_STATE"

\* Healthy of a report that takes every usable handle for healthy.
Healthy_Usable(st) == Usable(st)

\* HealthCheck: Healthy of an entry with a handle, state == connectivity.Ready.
Healthy(st) == st = "Ready"

\* HealthCheck: the map it builds. The first loop makes an entry for every
\* stored address, the second one for every tracked handle without one.
HealthReport ==
  [s \in Services |->
     LET conn == connections[s] IN
     IF addresses[s] # NoAddress /\ conn = NoHandle
       THEN [present |-> TRUE, State |-> "NotConnected", Healthy |-> FALSE,
             Error |-> "connection not established yet"]
     ELSE IF conn # NoHandle
       THEN [present |-> TRUE, State |-> StateString(hstate[conn]),
             Healthy |-> Healthy(hstate[conn]), Error |-> ""]
     ELSE NoEntry]

\* HealthCheck: builds the report under the shared lock and returns it.
HealthCheck ==
  /\ mu = 0
  /\ regLast' = [op |-> "health", res |-> "ok", h |-> NoHandle,
                 replaced |-> NoHandle, raced |-> FALSE, failed |-> {},
                 report |-> HealthReport]
  /\ UNCHANGED <<connections, addresses, mu, hstate, hsvc, haddr, nextHandle,
                 gpc, gsvc, gaddr, gconn, acquires, replacing>>
  /\ UNCHANGED <<namedServices, namedAddresses>>
  /\ UNCHANGED closeCalls
  /\ UNCHANGED otherThanReg

NextReg ==
  \/ \E c \in RegCallers, s \in Services, a \in Addresses \cup {NoAddress} :
       GetBegin(c, s, a)
  \/ \E c \in RegCallers : GetLookup(c)
  \/ \E c \in RegCallers : GetFastPath(c)
  \/ \E c \in RegCallers : GetLocked(c)
  \/ \E c \in RegCallers, ok \in BOOLEAN : GetDial(c, ok)
  \/ \E s \in Services : CloseConnection(s)
  \/ \E ord \in IterationOrders : Close(ord)
  \/ \E h \in Handles, st \in LiveStates : TransportState(h, st)
  \/ \E h \in Handles : HolderCloses(h)
  \/ HealthCheck

(***************************************************************************)
(* Interceptor chain: grpc.WithChainUnaryInterceptor runs the interceptors *)
(* in the order createConnection appends them; the invoker of each is the  *)
(* next one, the invoker of the last is the transport.                     *)
(***************************************************************************)
MaxChainCalls == 3

\* The toggles of a Config; EnableMetrics stands for
\* cm.config.EnableMetrics && cm.metrics != nil.
Toggles == [EnableLogging : BOOLEAN, EnableMetrics : BOOLEAN,
            EnableCircuitBreaker : BOOLEAN, EnableRetry : BOOLEAN]

\* DefaultConfig: logging, retry and breaker on, metrics off.
DefaultToggles == [EnableLogging |-> TRUE, EnableMetrics |-> FALSE,
                   EnableCircuitBreaker |-> TRUE, EnableRetry |-> TRUE]

\* createConnection: `if enabled { unaryInterceptors = append(...) }`.
Stage(enabled, name) == IF enabled THEN <<name>> ELSE <<>>

\* The chain with the retry closure appended before the breaker.
Chain_RetryBeforeBreaker ==
  Stage(toggles.EnableLogging, "logging") \o Stage(toggles.EnableMetrics, "metrics")
    \o Stage(toggles.EnableRetry, "retry")
    \o Stage(toggles.EnableCircuitBreaker, "breaker")

\* The chain with the metrics interceptor appended after the breaker.
Chain_MetricsAfterBreaker ==
  Stage(toggles.EnableLogging, "logging")
    \o Stage(toggles.EnableCircuitBreaker, "breaker")
    \o Stage(toggles.EnableMetrics, "metrics") \o Stage(toggles.EnableRetry, "retry")

\* createConnection: unaryInterceptors, the enabled interceptors in the
\* order they are appended.
Chain ==
  Stage(toggles.EnableLogging, "logging") \o Stage(toggles.EnableMetrics, "metrics")
    \o Stage(toggles.EnableCircuitBreaker, "breaker")
    \o Stage(toggles.EnableRetry, "retry")

TransportLevel == Len(Chain) + 1

\* The call is at the interceptor called name.
At(name) == level \in 1..Len(Chain) /\ Chain[level] = name

\* status.Error(codes.Unavailable, "circuit breaker is open"): a status
\* error no invocation of the transport produced.
BreakerOpenErr == StatusErr("Unavailable", 0)

\* status.FromError(err) followed by Code(): a nil error is OK, an error
\* that carries no status is Unknown.
StatusCode(e) ==
  IF e = Nil THEN "OK" ELSE IF e.kind = "status" THEN e.code ELSE "Unknown"

\* int(state) as exported to the gauge.
StateCode(st) ==
  CASE st = StateClosed -> 0 [] st = StateOpen -> 1 [] st = StateHalfOpen -> 2

\* What one invocation of the transport may return to the chain.
TransportResults(n) == InvokerResults(n) \cup {StatusErr("Aborted", n)}

\* The call returns e from the interceptor it is at to the one above it.
ReturnUp(e) ==
  /\ cres' = e
  /\ level' = level - 1
  /\ dir' = IF level = 1 THEN "idle" ELSE "up"

\* The interceptor the call is at calls its invoker.
InvokeNext ==
  /\ level' = level + 1
  /\ dir' = "down"
  /\ cres' = cres

cbState == <<state, failures, successes, lastFailure>>

cbLocals == <<pc, lstate, llastFailure>>

retryLocals == <<rpc, attempt, backoff, lastErr, sel>>

callHistory == <<outcomes, sleepLog, retryCount, recorded, bookkept, failures0>>

\* What no step of the chain itself changes.
chainFixed == <<config, now, err, startedOpen, probe, freshFails, failsSinceSuccess,
                halfOpenSucc, lastStep, rcfg, rmetrics, rret, cancelledInSleep,
                toggles>>

\* A logical call enters the chain with a context of its own.
ChainBegin ==
  /\ dir = "idle"
  /\ entered' = <<>>
  /\ calls < MaxChainCalls
  /\ calls' = calls + 1
  /\ level' = 1
  /\ dir' = "down"
  /\ cres' = Nil
  /\ ctx' = "active"
  /\ outcomes' = <<>>
  /\ sleepLog' = <<>>
  /\ retryCount' = 0
  /\ recorded' = <<>>
  /\ bookkept' = <<>>
  /\ failures0' = [failures |-> failures, state |-> state]
  /\ UNCHANGED <<cbState, cbLocals, retryLocals, exported, chainFixed>>
  /\ UNCHANGED otherThanChain

\* MetricsInterceptor: start := time.Now(); err := invoker(...).
MetricsDown ==
  /\ dir = "down" /\ At("metrics")
  /\ entered' = Append(entered, "metrics")
  /\ InvokeNext
  /\ UNCHANGED <<cbState, cbLocals, retryLocals, calls, ctx, callHistory,
                 exported, chainFixed>>
  /\ UNCHANGED otherThanChain

\* MetricsInterceptor: the invoker has returned; m.RecordGRPCRequest with
\* the code of its error, and the error is returned.
MetricsUp ==
  /\ dir = "up" /\ At("metrics")
  /\ UNCHANGED entered
  /\ recorded' = Append(recorded, StatusCode(cres))
  /\ ReturnUp(cres)
  /\ UNCHANGED <<cbState, cbLocals, retryLocals, calls, ctx, outcomes, sleepLog,
                 retryCount, bookkept, failures0, exported, chainFixed>>
  /\ UNCHANGED otherThanChain

\* LoggingInterceptor: start := time.Now(); err := invoker(...).
LoggingDown ==
  /\ dir = "down" /\ At("logging")
  /\ entered' = Append(entered, "logging")
  /\ InvokeNext
  /\ UNCHANGED <<cbState, cbLocals, retryLocals, calls, ctx, callHistory,
                 exported, chainFixed>>
  /\ UNCHANGED otherThanChain

\* LoggingInterceptor: the invoker has returned; the outcome is logged and
\* the error is returned.
LoggingUp ==
  /\ dir = "up" /\ At("logging")
  /\ UNCHANGED entered
  /\ ReturnUp(cres)
  /\ UNCHANGED <<cbState, cbLocals, retryLocals, calls, ctx, callHistory,
                 exported, chainFixed>>
  /\ UNCHANGED otherThanChain

\* CircuitBreakerInterceptor: breaker.Call is entered, first critical
\* section.
BreakerDown ==
  /\ dir = "down" /\ At("breaker")
  /\ entered' = Append(entered, "breaker")
  /\ dir' = "in"
  /\ pc' = [pc EXCEPT ![1] = "check"]
  /\ lstate' = [lstate EXCEPT ![1] = state]
  /\ llastFailure' = [llastFailure EXCEPT ![1] = lastFailure]
  /\ UNCHANGED <<level, cres, cbState, retryLocals, calls, ctx, callHistory,
                 exported, chainFixed>>
  /\ UNCHANGED otherThanChain

\* Call: the gate.  A rejected call returns the breaker's own error; the
\* interceptor exports the state and passes the error up.
BreakerCheck ==
  /\ dir = "in" /\ At("breaker") /\ pc[1] = "check"
  /\ UNCHANGED entered
  /\ IF Rejects(lstate[1], llastFailure[1], now, config)
     THEN /\ pc' = [pc EXCEPT ![1] = "idle"]
          /\ exported' = StateCode(state)
          /\ ReturnUp(BreakerOpenErr)
     ELSE /\ pc' = [pc EXCEPT ![1] = IF lstate[1] = StateOpen THEN "lock" ELSE "invoke"]
          /\ UNCHANGED <<level, dir, cres, exported>>
  /\ lstate' = [lstate EXCEPT ![1] = StateClosed]
  /\ llastFailure' = [llastFailure EXCEPT ![1] = ZeroTime]
  /\ UNCHANGED <<cbState, retryLocals, calls, ctx, callHistory, chainFixed>>
  /\ UNCHANGED otherThanChain

\* Call: second critical section.
BreakerHalfOpen ==
  /\ dir = "in" /\ At("breaker") /\ pc[1] = "lock"
  /\ UNCHANGED entered
  /\ SetBreaker(ToHalfOpen(Breaker))
  /\ pc' = [pc EXCEPT ![1] = "invoke"]
  /\ UNCHANGED <<level, dir, cres, lstate, llastFailure, retryLocals, calls, ctx,
                 callHistory, exported, chainFixed>>
  /\ UNCHANGED otherThanChain

\* Call: err := invoker(...).
BreakerInvoke ==
  /\ dir = "in" /\ At("breaker") /\ pc[1] = "invoke"
  /\ UNCHANGED entered
  /\ InvokeNext
  /\ UNCHANGED <<cbState, cbLocals, retryLocals, calls, ctx, callHistory,
                 exported, chainFixed>>
  /\ UNCHANGED otherThanChain

\* Call: the invoker has returned; third critical section, the bookkeeping
\* on the code of its error.  The interceptor exports the state and passes
\* the error up.
BreakerUp ==
  /\ dir = "up" /\ At("breaker")
  /\ UNCHANGED entered
  /\ LET code == StatusCode(cres)
         cb == IF cres = Nil THEN OnSuccess(Breaker, config)
               ELSE OnError(Breaker, code, now, config) IN
       /\ SetBreaker(cb)
       /\ exported' = StateCode(cb.state)
       /\ bookkept' = Append(bookkept, IF cres = Nil THEN "success"
                                       ELSE IF Qualifying(code) THEN "failure"
                                       ELSE "ignored")
  /\ pc' = [pc EXCEPT ![1] = "idle"]
  /\ ReturnUp(cres)
  /\ UNCHANGED <<lstate, llastFailure, retryLocals, calls, ctx, outcomes,
                 sleepLog, retryCount, recorded, failures0, chainFixed>>
  /\ UNCHANGED otherThanChain

\* RetryInterceptor: the closure is entered; lastErr, backoff, attempt := 1
\* and the first test of the loop condition.
RetryDown ==
  /\ dir = "down" /\ At("retry")
  /\ entered' = Append(entered, "retry")
  /\ attempt' = 1
  /\ backoff' = rcfg.InitialBackoff
  /\ lastErr' = Nil
  /\ sel' = "none"
  /\ IF 1 <= rcfg.MaxAttempts
     THEN rpc' = "invoke" /\ InvokeNext
     ELSE rpc' = "idle" /\ ReturnUp(Nil)
  /\ UNCHANGED <<cbState, cbLocals, calls, ctx, callHistory, exported, chainFixed>>
  /\ UNCHANGED otherThanChain

\* RetryInterceptor: the invoker has returned; the loop body up to its
\* return or to the select.
RetryUp ==
  /\ dir = "up" /\ At("retry") /\ rpc = "invoke"
  /\ UNCHANGED entered
  /\ LET r == AfterAttempt(cres, attempt, lastErr, rcfg) IN
       /\ lastErr' = IF cres = Nil THEN lastErr ELSE cres
       /\ IF r.do = "return"
          THEN /\ rpc' = "idle"
               /\ ReturnUp(r.val)
               /\ UNCHANGED <<sel, sleepLog, retryCount>>
          ELSE /\ rpc' = "select"
               /\ dir' = "in"
               /\ UNCHANGED <<level, cres>>
               /\ retryCount' = IF rmetrics THEN retryCount + 1 ELSE retryCount
               /\ sleepLog' = Append(sleepLog, backoff)
               /\ \/ ctx = "active" /\ sel' = "parked"
                  \/ ctx # "active" /\ sel' = "ctx"
                  \/ ctx # "active" /\ backoff <= 0 /\ sel' = "timer"
  /\ UNCHANGED <<cbState, cbLocals, attempt, backoff, calls, ctx, outcomes,
                 recorded, bookkept, failures0, exported, chainFixed>>
  /\ UNCHANGED otherThanChain

\* RetryInterceptor: the select returns: ctx.Err(), or the backoff update,
\* attempt++ and the next test of the loop condition.
RetryWakeUp ==
  /\ dir = "in" /\ At("retry") /\ rpc = "select" /\ sel \in {"ctx", "timer"}
  /\ UNCHANGED entered
  /\ sel' = "none"
  /\ LET r == SelectWake(sel, ctx) IN
       IF r.do = "return"
       THEN /\ rpc' = "idle"
            /\ ReturnUp(r.val)
            /\ UNCHANGED <<attempt, backoff>>
       ELSE /\ backoff' = NextBackoff(backoff, rcfg)
            /\ attempt' = attempt + 1
            /\ IF attempt + 1 <= rcfg.MaxAttempts
               THEN rpc' = "invoke" /\ InvokeNext
               ELSE rpc' = "idle" /\ ReturnUp(lastErr)
  /\ UNCHANGED <<cbState, cbLocals, lastErr, calls, ctx, callHistory, exported,
                 chainFixed>>
  /\ UNCHANGED otherThanChain

\* The transport below the last interceptor performs the call and returns e.
Transport(e) ==
  /\ dir = "down" /\ level = TransportLevel
  /\ entered' = Append(entered, "transport")
  /\ outcomes' = Append(outcomes, e)
  /\ ReturnUp(e)
  /\ UNCHANGED <<cbState, cbLocals, retryLocals, calls, ctx, sleepLog, retryCount,
                 recorded, bookkept, failures0, exported, chainFixed>>
  /\ UNCHANGED otherThanChain

\* The caller cancels the logical call in flight, or its deadline fires.
ChainCtxDone(k) ==
  /\ dir # "idle"
  /\ CtxDone(k)

NextChain ==
  \/ ChainBegin
  \/ LoggingDown
  \/ LoggingUp
  \/ MetricsDown
  \/ MetricsUp
  \/ BreakerDown
  \/ BreakerCheck
  \/ BreakerHalfOpen
  \/ BreakerInvoke
  \/ BreakerUp
  \/ RetryDown
  \/ RetryUp
  \/ RetryWakeUp
  \/ \E e \in TransportResults(Len(outcomes) + 1) : Transport(e)
  \/ RetryTimer
  \/ \E k \in {"Canceled", "DeadlineExceeded"} : ChainCtxDone(k)
  \/ Tick

(***************************************************************************)
(* Breaker maps: getBreaker of the closure returned by                     *)
(* CircuitBreakerInterceptor, and createConnection, which builds a new     *)
(* closure (with a new, empty map) for every handle it dials.              *)
(***************************************************************************)
NumMethods == 2
MaxDials == 2

Methods == 1..NumMethods

Closures == 1..MaxDials

Instances == 1..(NumMethods * MaxDials)

NoBreaker == 0

\* createConnection: interceptors.CircuitBreakerInterceptor(...) is called
\* and its closure installed in the handle being dialed; the handle becomes
\* the tracked one (the first dial, or the dial that replaces a stale handle).
Dial ==
  /\ dials < MaxDials
  /\ dials' = dials + 1
  /\ UNCHANGED <<breakers, bpc, bcl, bmeth, bref, nextBreaker, bkey>>
  /\ UNCHANGED otherThanBreakers

\* A call of method m on the tracked handle enters the closure; getBreaker,
\* the read under mu.RLock().
GetBreakerRead(c, m) ==
  /\ bpc[c] = "idle"
  /\ dials >= 1
  /\ bcl' = [bcl EXCEPT ![c] = dials]
  /\ bmeth' = [bmeth EXCEPT ![c] = m]
  /\ bref' = [bref EXCEPT ![c] = breakers[dials][m]]
  /\ bpc' = [bpc EXCEPT ![c] = IF breakers[dials][m] # NoBreaker THEN "call"
                                ELSE "write"]
  /\ UNCHANGED <<dials, breakers, nextBreaker, bkey>>
  /\ UNCHANGED otherThanBreakers

\* getBreaker, under mu.Lock(): the second look at the map, and
\* NewCircuitBreaker when the method still has no entry.
GetBreakerWrite(c) ==
  /\ bpc[c] = "write"
  /\ LET d == bcl[c]
         m == bmeth[c] IN
       IF breakers[d][m] # NoBreaker
       THEN /\ bref' = [bref EXCEPT ![c] = breakers[d][m]]
            /\ UNCHANGED <<breakers, nextBreaker, bkey>>
       ELSE /\ bref' = [bref EXCEPT ![c] = nextBreaker]
            /\ breakers' = [breakers EXCEPT ![d][m] = nextBreaker]
            /\ bkey' = [bkey EXCEPT ![nextBreaker] = m]
            /\ nextBreaker' = nextBreaker + 1
  /\ bpc' = [bpc EXCEPT ![c] = "call"]
  /\ UNCHANGED <<dials, bcl, bmeth>>
  /\ UNCHANGED otherThanBreakers

\* The closure's breaker.Call(...) on the breaker it got, and its return.
BreakerCall(c) ==
  /\ bpc[c] = "call"
  /\ bpc' = [bpc EXCEPT ![c] = "idle"]
  /\ bref' = [bref EXCEPT ![c] = NoBreaker]
  /\ UNCHANGED <<dials, breakers, bcl, bmeth, nextBreaker, bkey>>
  /\ UNCHANGED otherThanBreakers

NextBreakers ==
  \/ Dial
  \/ \E c \in Callers, m \in Methods : GetBreakerRead(c, m)
  \/ \E c \in Callers : GetBreakerWrite(c)
  \/ \E c \in Callers : BreakerCall(c)

(***************************************************************************)
(* Construction: Config.Validate, DefaultConfig, NewConnectionManager.     *)
(* A Config is the record of the five fields Validate reads; durations     *)
(* are in seconds.                                                         *)
(***************************************************************************)
MaxConfigValue == 1

ConfigValues == (-1)..MaxConfigValue

Configs == [MaxMsgSize : ConfigValues, KeepAliveTime : ConfigValues,
            KeepAliveTimeout : ConfigValues, MaxReconnectDelay : ConfigValues,
            MinConnectTimeout : ConfigValues]

\* A *Config argument: nil, or a pointer to the configuration c.
ZeroConfig == [MaxMsgSize |-> 0, KeepAliveTime |-> 0, KeepAliveTimeout |-> 0,
               MaxReconnectDelay |-> 0, MinConnectTimeout |-> 0]

NilConfig == [nil |-> TRUE, c |-> ZeroConfig]

ConfigAt(c) == [nil |-> FALSE, c |-> c]

NotConstructed == [op |-> "none", cm |-> FALSE, err |-> "nil"]

\* DefaultConfig.
DefaultConfig == [MaxMsgSize |-> 1024 * 1024 * 1024, KeepAliveTime |-> 30,
                  KeepAliveTimeout |-> 5, MaxReconnectDelay |-> 3,
                  MinConnectTimeout |-> 10]

\* Validate with `< 0` where the code has `<= 0`.
Validate_AllowsZero(c) ==
  IF c.MaxMsgSize < 0 THEN "MaxMsgSize must be greater than 0"
  ELSE IF c.KeepAliveTime < 0 THEN "KeepAliveTime must be greater than 0"
  ELSE IF c.KeepAliveTimeout < 0 THEN "KeepAliveTimeout must be greater than 0"
  ELSE IF c.MaxReconnectDelay < 0 THEN "MaxReconnectDelay must be greater than 0"
  ELSE IF c.MinConnectTimeout < 0 THEN "MinConnectTimeout must be greater than 0"
  ELSE "nil"

\* Config.Validate: the error of the first field that is not positive, or
\* nil.
Validate(c) ==
  IF c.MaxMsgSize <= 0 THEN "MaxMsgSize must be greater than 0"
  ELSE IF c.KeepAliveTime <= 0 THEN "KeepAliveTime must be greater than 0"
  ELSE IF c.KeepAliveTimeout <= 0 THEN "KeepAliveTimeout must be greater than 0"
  ELSE IF c.MaxReconnectDelay <= 0 THEN "MaxReconnectDelay must be greater than 0"
  ELSE IF c.MinConnectTimeout <= 0 THEN "MinConnectTimeout must be greater than 0"
  ELSE "nil"

\* NewConnectionManager: the configuration it validates and keeps.
EffectiveConfig(p) == IF p.nil THEN DefaultConfig ELSE p.c

\* NewConnectionManager: (nil, wrapped error) when validation fails, else
\* (manager with empty maps, nil).
NewConnectionManager(p) ==
  LET e == Validate(EffectiveConfig(p)) IN
  IF e # "nil" THEN [op |-> "new", cm |-> FALSE, err |-> "invalid config: " \o e]
  ELSE [op |-> "new", cm |-> TRUE, err |-> "nil"]

\* A caller validates its configuration.
CallValidate ==
  /\ vret = "none" /\ nret = NotConstructed
  /\ ~mcfg.nil
  /\ vret' = Validate(mcfg.c)
  /\ UNCHANGED <<mcfg, nret>>
  /\ UNCHANGED otherThanConfig

\* A caller constructs a manager from its configuration (or from nil).
CallNewConnectionManager ==
  /\ nret = NotConstructed
  /\ nret' = NewConnectionManager(mcfg)
  /\ UNCHANGED <<mcfg, vret>>
  /\ UNCHANGED otherThanConfig

NextConfig ==
  \/ CallValidate
  \/ CallNewConnectionManager

(***************************************************************************)
(* The closure returned by CircuitBreakerInterceptor, built with a metrics *)
(* collaborator (m != nil), called concurrently on one method: getBreaker  *)
(* has returned that method's breaker.                                     *)
(***************************************************************************)

\* Calls made through the closure.
MaxIcptCalls == 2

\* The error the closure itself makes of a nil error with a nil reply:
\* status.Error(codes.Internal, "grpc reply is nil ...").
ReplyNilErr == "InternalReplyNil"

NoIcptReturn == [op |-> "none", admitted |-> FALSE, replyNil |-> FALSE,
                 inner |-> "none", ret |-> "none"]

\* The closure returning every result of breaker.Call as it is.
IcptReturn_PassThrough(e, rn) == e

\* The closure's tail: `if err == nil && reply == nil { return Internal }`,
\* `return err`.
IcptReturn(e, rn) == IF e = "OK" /\ rn THEN ReplyNilErr ELSE e

\* The closure is called: breaker.Call is entered and takes its snapshot.
IcptBegin(c, rn) ==
  /\ ipc[c] = "idle"
  /\ calls < MaxIcptCalls
  /\ CallBeginStep(c)
  /\ ipc' = [ipc EXCEPT ![c] = "call"]
  /\ replyNil' = [replyNil EXCEPT ![c] = rn]
  /\ UNCHANGED <<iret, sampled, gauge, ilast>>
  /\ UNCHANGED otherThanIcpt

\* breaker.Call tests its snapshot; a rejected call returns to the closure
\* with the breaker's own error.
IcptCheck(c) ==
  /\ ipc[c] = "call"
  /\ CallCheckStep(c)
  /\ IF Rejects(lstate[c], llastFailure[c], now, config)
     THEN /\ ipc' = [ipc EXCEPT ![c] = "sample"]
          /\ iret' = [iret EXCEPT ![c] = "BreakerOpen"]
     ELSE UNCHANGED <<ipc, iret>>
  /\ UNCHANGED <<replyNil, sampled, gauge, ilast>>
  /\ UNCHANGED otherThanIcpt

\* breaker.Call does its bookkeeping and returns the invoker's error to the
\* closure.
IcptComplete(c) ==
  /\ ipc[c] = "call"
  /\ CallCompleteStep(c)
  /\ ipc' = [ipc EXCEPT ![c] = "sample"]
  /\ iret' = [iret EXCEPT ![c] = err[c]]
  /\ UNCHANGED <<replyNil, sampled, gauge, ilast>>
  /\ UNCHANGED otherThanIcpt

\* The closure: breaker.mu.Lock(); state := breaker.state; breaker.mu.Unlock().
IcptSample(c) ==
  /\ ipc[c] = "sample"
  /\ sampled' = [sampled EXCEPT ![c] = state]
  /\ ipc' = [ipc EXCEPT ![c] = "export"]
  /\ UNCHANGED <<replyNil, iret, gauge, ilast>>
  /\ UNCHANGED <<cbVars, otherThanIcpt>>

\* The closure: m.UpdateGRPCCircuitBreaker(serviceName, method, int(state)),
\* outside breaker.mu, then the nil-reply test and the return.
IcptExport(c) ==
  /\ ipc[c] = "export"
  /\ gauge' = StateCode(sampled[c])
  /\ ilast' = [op |-> "return", admitted |-> iret[c] # "BreakerOpen",
               replyNil |-> replyNil[c], inner |-> iret[c],
               ret |-> IcptReturn(iret[c], replyNil[c])]
  /\ ipc' = [ipc EXCEPT ![c] = "idle"]
  /\ replyNil' = [replyNil EXCEPT ![c] = FALSE]
  /\ iret' = [iret EXCEPT ![c] = "OK"]
  /\ sampled' = [sampled EXCEPT ![c] = StateClosed]
  /\ UNCHANGED <<cbVars, otherThanIcpt>>

NextIcpt ==
  \/ \E c \in Callers, rn \in BOOLEAN : IcptBegin(c, rn)
  \/ \E c \in Callers : IcptCheck(c)
  \/ \E c \in Callers : CallHalfOpen(c)
  \/ \E c \in Callers, e \in Outcomes : CallInvoke(c, e)
  \/ \E c \in Callers : IcptComplete(c)
  \/ \E c \in Callers : IcptSample(c)
  \/ \E c \in Callers : IcptExport(c)
  \/ Tick

vars == <<cbVars, retryVars, regVars, chainVars, brVars, cfgVars, icptVars>>

\* The configurations of the components a specification leaves untouched.
QuietBreakerConfig == [FailureThreshold |-> 1, SuccessThreshold |-> 1, Timeout |-> 1]

QuietRetryConfig == [MaxAttempts |-> 1, InitialBackoff |-> 1, MaxBackoff |-> 1,
                     BackoffMultiplier |-> 1]

\* Concurrent calls through one circuit breaker; the retry interceptor is
\* left as constructed.
InitSpecCB ==
  /\ config \in [FailureThreshold : 1..MaxThreshold,
                 SuccessThreshold : 1..MaxThreshold,
                 Timeout : 1..MaxTimeout]
  /\ state = NewCircuitBreaker.state
  /\ failures = NewCircuitBreaker.failures
  /\ successes = NewCircuitBreaker.successes
  /\ lastFailure = NewCircuitBreaker.lastFailure
  /\ now = 0
  /\ pc = [c \in Callers |-> "idle"]
  /\ lstate = [c \in Callers |-> StateClosed]
  /\ llastFailure = [c \in Callers |-> ZeroTime]
  /\ err = [c \in Callers |-> "OK"]
  /\ startedOpen = [c \in Callers |-> FALSE]
  /\ probe = [c \in Callers |-> FALSE]
  /\ freshFails = 0
  /\ failsSinceSuccess = 0
  /\ halfOpenSucc = 0
  /\ calls = 0
  /\ lastStep = [op |-> "init", from |-> StateClosed, ret |-> "none"]
  /\ rcfg = QuietRetryConfig
  /\ rmetrics = FALSE
  /\ rpc = "idle"
  /\ attempt = 0
  /\ backoff = 0
  /\ lastErr = Nil
  /\ ctx = "active"
  /\ sel = "none"
  /\ rret = Nil
  /\ outcomes = <<>>
  /\ sleepLog = <<>>
  /\ retryCount = 0
  /\ cancelledInSleep = FALSE
  /\ connections = [s \in Services |-> NoHandle]
  /\ addresses = [s \in Services |-> NoAddress]
  /\ mu = 0
  /\ hstate = [h \in Handles |-> "none"]
  /\ hsvc = [h \in Handles |-> 1]
  /\ haddr = [h \in Handles |-> NoAddress]
  /\ nextHandle = 1
  /\ gpc = [c \in RegCallers |-> "idle"]
  /\ gsvc = [c \in RegCallers |-> 1]
  /\ gaddr = [c \in RegCallers |-> NoAddress]
  /\ gconn = [c \in RegCallers |-> NoHandle]
  /\ acquires = 0
  /\ namedServices = 0
  /\ namedAddresses = 0
  /\ closeCalls = [h \in Handles |-> 0]
  /\ replacing = [h |-> NoHandle, raced |-> FALSE]
  /\ regLast = NoReturn
  /\ level = 0
  /\ dir = "idle"
  /\ cres = Nil
  /\ recorded = <<>>
  /\ bookkept = <<>>
  /\ failures0 = [failures |-> 0, state |-> StateClosed]
  /\ exported = -1
  /\ toggles = DefaultToggles
  /\ entered = <<>>
  /\ ipc = [c \in Callers |-> "idle"]
  /\ replyNil = [c \in Callers |-> FALSE]
  /\ iret = [c \in Callers |-> "OK"]
  /\ sampled = [c \in Callers |-> StateClosed]
  /\ gauge = -1
  /\ ilast = NoIcptReturn
  /\ dials = 0
  /\ breakers = [d \in Closures |-> [m \in Methods |-> NoBreaker]]
  /\ bpc = [c \in Callers |-> "idle"]
  /\ bcl = [c \in Callers |-> 1]
  /\ bmeth = [c \in Callers |-> 1]
  /\ bref = [c \in Callers |-> NoBreaker]
  /\ nextBreaker = 1
  /\ bkey = [i \in Instances |-> 0]
  /\ mcfg = NilConfig
  /\ vret = "none"
  /\ nret = NotConstructed

SpecCB == InitSpecCB /\ [][NextCB]_vars

\* One logical call through the retry interceptor; the breaker is left as
\* constructed.
InitSpecRetry ==
  /\ rcfg \in [MaxAttempts : 0..MaxRetryAttempts,
               InitialBackoff : 0..MaxBackoffUnits,
               MaxBackoff : 1..MaxBackoffUnits,
               BackoffMultiplier : 1..MaxMultiplier]
  /\ rmetrics \in BOOLEAN
  /\ rpc = "idle"
  /\ attempt = 0
  /\ backoff = 0
  /\ lastErr = Nil
  /\ ctx = "active"
  /\ sel = "none"
  /\ rret = Nil
  /\ outcomes = <<>>
  /\ sleepLog = <<>>
  /\ retryCount = 0
  /\ cancelledInSleep = FALSE
  /\ config = QuietBreakerConfig
  /\ state = NewCircuitBreaker.state
  /\ failures = NewCircuitBreaker.failures
  /\ successes = NewCircuitBreaker.successes
  /\ lastFailure = NewCircuitBreaker.lastFailure
  /\ now = 0
  /\ pc = [c \in Callers |-> "idle"]
  /\ lstate = [c \in Callers |-> StateClosed]
  /\ llastFailure = [c \in Callers |-> ZeroTime]
  /\ err = [c \in Callers |-> "OK"]
  /\ startedOpen = [c \in Callers |-> FALSE]
  /\ probe = [c \in Callers |-> FALSE]
  /\ freshFails = 0
  /\ failsSinceSuccess = 0
  /\ halfOpenSucc = 0
  /\ calls = 0
  /\ lastStep = [op |-> "init", from |-> StateClosed, ret |-> "none"]
  /\ connections = [s \in Services |-> NoHandle]
  /\ addresses = [s \in Services |-> NoAddress]
  /\ mu = 0
  /\ hstate = [h \in Handles |-> "none"]
  /\ hsvc = [h \in Handles |-> 1]
  /\ haddr = [h \in Handles |-> NoAddress]
  /\ nextHandle = 1
  /\ gpc = [c \in RegCallers |-> "idle"]
  /\ gsvc = [c \in RegCallers |-> 1]
  /\ gaddr = [c \in RegCallers |-> NoAddress]
  /\ gconn = [c \in RegCallers |-> NoHandle]
  /\ acquires = 0
  /\ namedServices = 0
  /\ namedAddresses = 0
  /\ closeCalls = [h \in Handles |-> 0]
  /\ replacing = [h |-> NoHandle, raced |-> FALSE]
  /\ regLast = NoReturn
  /\ level = 0
  /\ dir = "idle"
  /\ cres = Nil
  /\ recorded = <<>>
  /\ bookkept = <<>>
  /\ failures0 = [failures |-> 0, state |-> StateClosed]
  /\ exported = -1
  /\ toggles = DefaultToggles
  /\ entered = <<>>
  /\ ipc = [c \in Callers |-> "idle"]
  /\ replyNil = [c \in Callers |-> FALSE]
  /\ iret = [c \in Callers |-> "OK"]
  /\ sampled = [c \in Callers |-> StateClosed]
  /\ gauge = -1
  /\ ilast = NoIcptReturn
  /\ dials = 0
  /\ breakers = [d \in Closures |-> [m \in Methods |-> NoBreaker]]
  /\ bpc = [c \in Callers |-> "idle"]
  /\ bcl = [c \in Callers |-> 1]
  /\ bmeth = [c \in Callers |-> 1]
  /\ bref = [c \in Callers |-> NoBreaker]
  /\ nextBreaker = 1
  /\ bkey = [i \in Instances |-> 0]
  /\ mcfg = NilConfig
  /\ vret = "none"
  /\ nret = NotConstructed

SpecRetry == InitSpecRetry /\ [][NextRetry]_vars

\* Concurrent callers of the connection registry; the breaker and the retry
\* interceptor are left as constructed.
InitSpecReg ==
  /\ connections = [s \in Services |-> NoHandle]
  /\ addresses = [s \in Services |-> NoAddress]
  /\ mu = 0
  /\ hstate = [h \in Handles |-> "none"]
  /\ hsvc = [h \in Handles |-> 1]
  /\ haddr = [h \in Handles |-> NoAddress]
  /\ nextHandle = 1
  /\ gpc = [c \in RegCallers |-> "idle"]
  /\ gsvc = [c \in RegCallers |-> 1]
  /\ gaddr = [c \in RegCallers |-> NoAddress]
  /\ gconn = [c \in RegCallers |-> NoHandle]
  /\ acquires = 0
  /\ namedServices = 0
  /\ namedAddresses = 0
  /\ closeCalls = [h \in Handles |-> 0]
  /\ replacing = [h |-> NoHandle, raced |-> FALSE]
  /\ regLast = NoReturn
  /\ level = 0
  /\ dir = "idle"
  /\ cres = Nil
  /\ recorded = <<>>
  /\ bookkept = <<>>
  /\ failures0 = [failures |-> 0, state |-> StateClosed]
  /\ exported = -1
  /\ toggles = DefaultToggles
  /\ entered = <<>>
  /\ ipc = [c \in Callers |-> "idle"]
  /\ replyNil = [c \in Callers |-> FALSE]
  /\ iret = [c \in Callers |-> "OK"]
  /\ sampled = [c \in Callers |-> StateClosed]
  /\ gauge = -1
  /\ ilast = NoIcptReturn
  /\ dials = 0
  /\ breakers = [d \in Closures |-> [m \in Methods |-> NoBreaker]]
  /\ bpc = [c \in Callers |-> "idle"]
  /\ bcl = [c \in Callers |-> 1]
  /\ bmeth = [c \in Callers |-> 1]
  /\ bref = [c \in Callers |-> NoBreaker]
  /\ nextBreaker = 1
  /\ bkey = [i \in Instances |-> 0]
  /\ mcfg = NilConfig
  /\ vret = "none"
  /\ nret = NotConstructed
  /\ rcfg = QuietRetryConfig
  /\ rmetrics = FALSE
  /\ rpc = "idle"
  /\ attempt = 0
  /\ backoff = 0
  /\ lastErr = Nil
  /\ ctx = "active"
  /\ sel = "none"
  /\ rret = Nil
  /\ outcomes = <<>>
  /\ sleepLog = <<>>
  /\ retryCount = 0
  /\ cancelledInSleep = FALSE
  /\ config = QuietBreakerConfig
  /\ state = NewCircuitBreaker.state
  /\ failures = NewCircuitBreaker.failures
  /\ successes = NewCircuitBreaker.successes
  /\ lastFailure = NewCircuitBreaker.lastFailure
  /\ now = 0
  /\ pc = [c \in Callers |-> "idle"]
  /\ lstate = [c \in Callers |-> StateClosed]
  /\ llastFailure = [c \in Callers |-> ZeroTime]
  /\ err = [c \in Callers |-> "OK"]
  /\ startedOpen = [c \in Callers |-> FALSE]
  /\ probe = [c \in Callers |-> FALSE]
  /\ freshFails = 0
  /\ failsSinceSuccess = 0
  /\ halfOpenSucc = 0
  /\ calls = 0
  /\ lastStep = [op |-> "init", from |-> StateClosed, ret |-> "none"]

SpecReg == InitSpecReg /\ [][NextReg]_vars

\* Logical calls, one after another, through the chain of one handle.
InitSpecChain ==
  /\ config \in [FailureThreshold : 1..MaxThreshold,
                 SuccessThreshold : {1},
                 Timeout : {1}]
  /\ state = NewCircuitBreaker.state
  /\ failures = NewCircuitBreaker.failures
  /\ successes = NewCircuitBreaker.successes
  /\ lastFailure = NewCircuitBreaker.lastFailure
  /\ now = 0
  /\ pc = [c \in Callers |-> "idle"]
  /\ lstate = [c \in Callers |-> StateClosed]
  /\ llastFailure = [c \in Callers |-> ZeroTime]
  /\ err = [c \in Callers |-> "OK"]
  /\ startedOpen = [c \in Callers |-> FALSE]
  /\ probe = [c \in Callers |-> FALSE]
  /\ freshFails = 0
  /\ failsSinceSuccess = 0
  /\ halfOpenSucc = 0
  /\ calls = 0
  /\ lastStep = [op |-> "init", from |-> StateClosed, ret |-> "none"]
  /\ rcfg \in [MaxAttempts : {MaxRetryAttempts},
               InitialBackoff : {1},
               MaxBackoff : {MaxBackoffUnits},
               BackoffMultiplier : {MaxMultiplier}]
  /\ rmetrics = TRUE
  /\ rpc = "idle"
  /\ attempt = 0
  /\ backoff = 0
  /\ lastErr = Nil
  /\ ctx = "active"
  /\ sel = "none"
  /\ rret = Nil
  /\ outcomes = <<>>
  /\ sleepLog = <<>>
  /\ retryCount = 0
  /\ cancelledInSleep = FALSE
  /\ connections = [s \in Services |-> NoHandle]
  /\ addresses = [s \in Services |-> NoAddress]
  /\ mu = 0
  /\ hstate = [h \in Handles |-> "none"]
  /\ hsvc = [h \in Handles |-> 1]
  /\ haddr = [h \in Handles |-> NoAddress]
  /\ nextHandle = 1
  /\ gpc = [c \in RegCallers |-> "idle"]
  /\ gsvc = [c \in RegCallers |-> 1]
  /\ gaddr = [c \in RegCallers |-> NoAddress]
  /\ gconn = [c \in RegCallers |-> NoHandle]
  /\ acquires = 0
  /\ namedServices = 0
  /\ namedAddresses = 0
  /\ closeCalls = [h \in Handles |-> 0]
  /\ replacing = [h |-> NoHandle, raced |-> FALSE]
  /\ regLast = NoReturn
  /\ level = 0
  /\ dir = "idle"
  /\ cres = Nil
  /\ recorded = <<>>
  /\ bookkept = <<>>
  /\ failures0 = [failures |-> 0, state |-> StateClosed]
  /\ exported = -1
  /\ toggles \in Toggles
  /\ entered = <<>>
  /\ ipc = [c \in Callers |-> "idle"]
  /\ replyNil = [c \in Callers |-> FALSE]
  /\ iret = [c \in Callers |-> "OK"]
  /\ sampled = [c \in Callers |-> StateClosed]
  /\ gauge = -1
  /\ ilast = NoIcptReturn
  /\ dials = 0
  /\ breakers = [d \in Closures |-> [m \in Methods |-> NoBreaker]]
  /\ bpc = [c \in Callers |-> "idle"]
  /\ bcl = [c \in Callers |-> 1]
  /\ bmeth = [c \in Callers |-> 1]
  /\ bref = [c \in Callers |-> NoBreaker]
  /\ nextBreaker = 1
  /\ bkey = [i \in Instances |-> 0]
  /\ mcfg = NilConfig
  /\ vret = "none"
  /\ nret = NotConstructed

SpecChain == InitSpecChain /\ [][NextChain]_vars

\* Concurrent calls through the breaker closures of the handles dialed for
\* one service.
InitSpecBreakers ==
  /\ config = QuietBreakerConfig
  /\ state = NewCircuitBreaker.state
  /\ failures = NewCircuitBreaker.failures
  /\ successes = NewCircuitBreaker.successes
  /\ lastFailure = NewCircuitBreaker.lastFailure
  /\ now = 0
  /\ pc = [c \in Callers |-> "idle"]
  /\ lstate = [c \in Callers |-> StateClosed]
  /\ llastFailure = [c \in Callers |-> ZeroTime]
  /\ err = [c \in Callers |-> "OK"]
  /\ startedOpen = [c \in Callers |-> FALSE]
  /\ probe = [c \in Callers |-> FALSE]
  /\ freshFails = 0
  /\ failsSinceSuccess = 0
  /\ halfOpenSucc = 0
  /\ calls = 0
  /\ lastStep = [op |-> "init", from |-> StateClosed, ret |-> "none"]
  /\ rcfg = QuietRetryConfig
  /\ rmetrics = FALSE
  /\ rpc = "idle"
  /\ attempt = 0
  /\ backoff = 0
  /\ lastErr = Nil
  /\ ctx = "active"
  /\ sel = "none"
  /\ rret = Nil
  /\ outcomes = <<>>
  /\ sleepLog = <<>>
  /\ retryCount = 0
  /\ cancelledInSleep = FALSE
  /\ connections = [s \in Services |-> NoHandle]
  /\ addresses = [s \in Services |-> NoAddress]
  /\ mu = 0
  /\ hstate = [h \in Handles |-> "none"]
  /\ hsvc = [h \in Handles |-> 1]
  /\ haddr = [h \in Handles |-> NoAddress]
  /\ nextHandle = 1
  /\ gpc = [c \in RegCallers |-> "idle"]
  /\ gsvc = [c \in RegCallers |-> 1]
  /\ gaddr = [c \in RegCallers |-> NoAddress]
  /\ gconn = [c \in RegCallers |-> NoHandle]
  /\ acquires = 0
  /\ namedServices = 0
  /\ namedAddresses = 0
  /\ closeCalls = [h \in Handles |-> 0]
  /\ replacing = [h |-> NoHandle, raced |-> FALSE]
  /\ regLast = NoReturn
  /\ level = 0
  /\ dir = "idle"
  /\ cres = Nil
  /\ recorded = <<>>
  /\ bookkept = <<>>
  /\ failures0 = [failures |-> 0, state |-> StateClosed]
  /\ exported = -1
  /\ toggles = DefaultToggles
  /\ entered = <<>>
  /\ ipc = [c \in Callers |-> "idle"]
  /\ replyNil = [c \in Callers |-> FALSE]
  /\ iret = [c \in Callers |-> "OK"]
  /\ sampled = [c \in Callers |-> StateClosed]
  /\ gauge = -1
  /\ ilast = NoIcptReturn
  /\ dials = 0
  /\ breakers = [d \in Closures |-> [m \in Methods |-> NoBreaker]]
  /\ bpc = [c \in Callers |-> "idle"]
  /\ bcl = [c \in Callers |-> 1]
  /\ bmeth = [c \in Callers |-> 1]
  /\ bref = [c \in Callers |-> NoBreaker]
  /\ nextBreaker = 1
  /\ bkey = [i \in Instances |-> 0]
  /\ mcfg = NilConfig
  /\ vret = "none"
  /\ nret = NotConstructed

SpecBreakers == InitSpecBreakers /\ [][NextBreakers]_vars

\* One configuration, validated and handed to NewConnectionManager.
InitSpecConfig ==
  /\ config = QuietBreakerConfig
  /\ state = NewCircuitBreaker.state
  /\ failures = NewCircuitBreaker.failures
  /\ successes = NewCircuitBreaker.successes
  /\ lastFailure = NewCircuitBreaker.lastFailure
  /\ now = 0
  /\ pc = [c \in Callers |-> "idle"]
  /\ lstate = [c \in Callers |-> StateClosed]
  /\ llastFailure = [c \in Callers |-> ZeroTime]
  /\ err = [c \in Callers |-> "OK"]
  /\ startedOpen = [c \in Callers |-> FALSE]
  /\ probe = [c \in Callers |-> FALSE]
  /\ freshFails = 0
  /\ failsSinceSuccess = 0
  /\ halfOpenSucc = 0
  /\ calls = 0
  /\ lastStep = [op |-> "init", from |-> StateClosed, ret |-> "none"]
  /\ rcfg = QuietRetryConfig
  /\ rmetrics = FALSE
  /\ rpc = "idle"
  /\ attempt = 0
  /\ backoff = 0
  /\ lastErr = Nil
  /\ ctx = "active"
  /\ sel = "none"
  /\ rret = Nil
  /\ outcomes = <<>>
  /\ sleepLog = <<>>
  /\ retryCount = 0
  /\ cancelledInSleep = FALSE
  /\ connections = [s \in Services |-> NoHandle]
  /\ addresses = [s \in Services |-> NoAddress]
  /\ mu = 0
  /\ hstate = [h \in Handles |-> "none"]
  /\ hsvc = [h \in Handles |-> 1]
  /\ haddr = [h \in Handles |-> NoAddress]
  /\ nextHandle = 1
  /\ gpc = [c \in RegCallers |-> "idle"]
  /\ gsvc = [c \in RegCallers |-> 1]
  /\ gaddr = [c \in RegCallers |-> NoAddress]
  /\ gconn = [c \in RegCallers |-> NoHandle]
  /\ acquires = 0
  /\ namedServices = 0
  /\ namedAddresses = 0
  /\ closeCalls = [h \in Handles |-> 0]
  /\ replacing = [h |-> NoHandle, raced |-> FALSE]
  /\ regLast = NoReturn
  /\ level = 0
  /\ dir = "idle"
  /\ cres = Nil
  /\ recorded = <<>>
  /\ bookkept = <<>>
  /\ failures0 = [failures |-> 0, state |-> StateClosed]
  /\ exported = -1
  /\ toggles = DefaultToggles
  /\ entered = <<>>
  /\ ipc = [c \in Callers |-> "idle"]
  /\ replyNil = [c \in Callers |-> FALSE]
  /\ iret = [c \in Callers |-> "OK"]
  /\ sampled = [c \in Callers |-> StateClosed]
  /\ gauge = -1
  /\ ilast = NoIcptReturn
  /\ dials = 0
  /\ breakers = [d \in Closures |-> [m \in Methods |-> NoBreaker]]
  /\ bpc = [c \in Callers |-> "idle"]
  /\ bcl = [c \in Callers |-> 1]
  /\ bmeth = [c \in Callers |-> 1]
  /\ bref = [c \in Callers |-> NoBreaker]
  /\ nextBreaker = 1
  /\ bkey = [i \in Instances |-> 0]
  /\ mcfg \in {ConfigAt(c) : c \in Configs} \cup {NilConfig}
  /\ vret = "none"
  /\ nret = NotConstructed

SpecConfig == InitSpecConfig /\ [][NextConfig]_vars

\* Concurrent calls through the breaker closure, on one method.
InitSpecIcpt ==
  /\ config \in [FailureThreshold : {1},
                 SuccessThreshold : {1},
                 Timeout : {1}]
  /\ state = NewCircuitBreaker.state
  /\ failures = NewCircuitBreaker.failures
  /\ successes = NewCircuitBreaker.successes
  /\ lastFailure = NewCircuitBreaker.lastFailure
  /\ now = 0
  /\ pc = [c \in Callers |-> "idle"]
  /\ lstate = [c \in Callers |-> StateClosed]
  /\ llastFailure = [c \in Callers |-> ZeroTime]
  /\ err = [c \in Callers |-> "OK"]
  /\ startedOpen = [c \in Callers |-> FALSE]
  /\ probe = [c \in Callers |-> FALSE]
  /\ freshFails = 0
  /\ failsSinceSuccess = 0
  /\ halfOpenSucc = 0
  /\ calls = 0
  /\ lastStep = [op |-> "init", from |-> StateClosed, ret |-> "none"]
  /\ rcfg = QuietRetryConfig
  /\ rmetrics = FALSE
  /\ rpc = "idle"
  /\ attempt = 0
  /\ backoff = 0
  /\ lastErr = Nil
  /\ ctx = "active"
  /\ sel = "none"
  /\ rret = Nil
  /\ outcomes = <<>>
  /\ sleepLog = <<>>
  /\ retryCount = 0
  /\ cancelledInSleep = FALSE
  /\ connections = [s \in Services |-> NoHandle]
  /\ addresses = [s \in Services |-> NoAddress]
  /\ mu = 0
  /\ hstate = [h \in Handles |-> "none"]
  /\ hsvc = [h \in Handles |-> 1]
  /\ haddr = [h \in Handles |-> NoAddress]
  /\ nextHandle = 1
  /\ gpc = [c \in RegCallers |-> "idle"]
  /\ gsvc = [c \in RegCallers |-> 1]
  /\ gaddr = [c \in RegCallers |-> NoAddress]
  /\ gconn = [c \in RegCallers |-> NoHandle]
  /\ acquires = 0
  /\ namedServices = 0
  /\ namedAddresses = 0
  /\ closeCalls = [h \in Handles |-> 0]
  /\ replacing = [h |-> NoHandle, raced |-> FALSE]
  /\ regLast = NoReturn
  /\ level = 0
  /\ dir = "idle"
  /\ cres = Nil
  /\ recorded = <<>>
  /\ bookkept = <<>>
  /\ failures0 = [failures |-> 0, state |-> StateClosed]
  /\ exported = -1
  /\ toggles = DefaultToggles
  /\ entered = <<>>
  /\ ipc = [c \in Callers |-> "idle"]
  /\ replyNil = [c \in Callers |-> FALSE]
  /\ iret = [c \in Callers |-> "OK"]
  /\ sampled = [c \in Callers |-> StateClosed]
  /\ gauge = -1
  /\ ilast = NoIcptReturn
  /\ dials = 0
  /\ breakers = [d \in Closures |-> [m \in Methods |-> NoBreaker]]
  /\ bpc = [c \in Callers |-> "idle"]
  /\ bcl = [c \in Callers |-> 1]
  /\ bmeth = [c \in Callers |-> 1]
  /\ bref = [c \in Callers |-> NoBreaker]
  /\ nextBreaker = 1
  /\ bkey = [i \in Instances |-> 0]
  /\ mcfg = NilConfig
  /\ vret = "none"
  /\ nret = NotConstructed

SpecIcpt == InitSpecIcpt /\ [][NextIcpt]_vars

\* The scheduler runs every call that has begun to its return, and time
\* passes.
FairnessCB ==
  /\ \A c \in Callers : WF_vars(CallCheck(c))
  /\ \A c \in Callers : WF_vars(CallHalfOpen(c))
  /\ \A c \in Callers : WF_vars(\E e \in Outcomes : CallInvoke(c, e))
  /\ \A c \in Callers : WF_vars(CallCompleteLive(c))
  /\ WF_vars(TickLive)

\* Concurrent calls on one breaker without end, run fairly.
InitSpecCBLive ==
  /\ config \in [FailureThreshold : 1..MaxThreshold,
                 SuccessThreshold : 1..MaxThreshold,
                 Timeout : 1..MaxTimeout]
  /\ state = NewCircuitBreaker.state
  /\ failures = NewCircuitBreaker.failures
  /\ successes = NewCircuitBreaker.successes
  /\ lastFailure = NewCircuitBreaker.lastFailure
  /\ now = 0
  /\ pc = [c \in Callers |-> "idle"]
  /\ lstate = [c \in Callers |-> StateClosed]
  /\ llastFailure = [c \in Callers |-> ZeroTime]
  /\ err = [c \in Callers |-> "OK"]
  /\ startedOpen = [c \in Callers |-> FALSE]
  /\ probe = [c \in Callers |-> FALSE]
  /\ freshFails = 0
  /\ failsSinceSuccess = 0
  /\ halfOpenSucc = 0
  /\ calls = 0
  /\ lastStep = [op |-> "init", from |-> StateClosed, ret |-> "none"]
  /\ rcfg = QuietRetryConfig
  /\ rmetrics = FALSE
  /\ rpc = "idle"
  /\ attempt = 0
  /\ backoff = 0
  /\ lastErr = Nil
  /\ ctx = "active"
  /\ sel = "none"
  /\ rret = Nil
  /\ outcomes = <<>>
  /\ sleepLog = <<>>
  /\ retryCount = 0
  /\ cancelledInSleep = FALSE
  /\ connections = [s \in Services |-> NoHandle]
  /\ addresses = [s \in Services |-> NoAddress]
  /\ mu = 0
  /\ hstate = [h \in Handles |-> "none"]
  /\ hsvc = [h \in Handles |-> 1]
  /\ haddr = [h \in Handles |-> NoAddress]
  /\ nextHandle = 1
  /\ gpc = [c \in RegCallers |-> "idle"]
  /\ gsvc = [c \in RegCallers |-> 1]
  /\ gaddr = [c \in RegCallers |-> NoAddress]
  /\ gconn = [c \in RegCallers |-> NoHandle]
  /\ acquires = 0
  /\ namedServices = 0
  /\ namedAddresses = 0
  /\ closeCalls = [h \in Handles |-> 0]
  /\ replacing = [h |-> NoHandle, raced |-> FALSE]
  /\ regLast = NoReturn
  /\ level = 0
  /\ dir = "idle"
  /\ cres = Nil
  /\ recorded = <<>>
  /\ bookkept = <<>>
  /\ failures0 = [failures |-> 0, state |-> StateClosed]
  /\ exported = -1
  /\ toggles = DefaultToggles
  /\ entered = <<>>
  /\ ipc = [c \in Callers |-> "idle"]
  /\ replyNil = [c \in Callers |-> FALSE]
  /\ iret = [c \in Callers |-> "OK"]
  /\ sampled = [c \in Callers |-> StateClosed]
  /\ gauge = -1
  /\ ilast = NoIcptReturn
  /\ dials = 0
  /\ breakers = [d \in Closures |-> [m \in Methods |-> NoBreaker]]
  /\ bpc = [c \in Callers |-> "idle"]
  /\ bcl = [c \in Callers |-> 1]
  /\ bmeth = [c \in Callers |-> 1]
  /\ bref = [c \in Callers |-> NoBreaker]
  /\ nextBreaker = 1
  /\ bkey = [i \in Instances |-> 0]
  /\ mcfg = NilConfig
  /\ vret = "none"
  /\ nret = NotConstructed

SpecCBLive == InitSpecCBLive /\ [][NextCBLive]_vars /\ FairnessCB

(***************************************************************************)
(* Circuit breaker: properties.                                            *)
(***************************************************************************)

\* Caller c's call returns from the bookkeeping section in this step.
Completes(c) == pc[c] = "complete" /\ pc'[c] = "idle"

\* Caller c's call leaves the gate (`if state == StateOpen`) in this step.
LeavesGate(c) == pc[c] = "check" /\ pc'[c] # "check"

\* C1: a Closed breaker opens only in the step in which a call completes
\* with a qualifying failure that raises the failure count (while Closed:
\* the qualifying failures since the last success) to at least
\* FailureThreshold; on a fresh breaker, fewer than FailureThreshold
\* consecutive qualifying failures leave it Closed and the
\* FailureThreshold-th leaves it Open.
C1_OpensOnlyAtThreshold ==
  [][ /\ (state = StateClosed => failures = failsSinceSuccess)
      /\ (state = StateClosed /\ state' = StateOpen =>
            /\ \E c \in Callers : Completes(c) /\ Qualifying(err[c])
            /\ failures' = failures + 1
            /\ failures' >= config.FailureThreshold
            /\ failsSinceSuccess' >= config.FailureThreshold)
      /\ (freshFails' >= 0 /\ freshFails' < config.FailureThreshold =>
            state' = StateClosed)
      /\ ((\E c \in Callers : Completes(c))
            /\ freshFails' = config.FailureThreshold => state' = StateOpen)
    ]_vars

\* C1 witness: with FailureThreshold = 2, the second consecutive qualifying
\* failure on a fresh breaker has just completed and the breaker is Open.
C1_Witness ==
  /\ config.FailureThreshold = 2
  /\ lastStep.op = "failure" /\ lastStep.from = StateClosed
  /\ freshFails = 2
  /\ state = StateOpen

\* C2: a call that starts while the breaker is Open with less than Timeout
\* elapsed since the last qualifying failure (here: at its snapshot and
\* still when it evaluates the gate) is rejected with the breaker's
\* Unavailable error, never reaches the invoker, and leaves state, failures,
\* successes and lastFailure unchanged.
C2_OpenRejects ==
  [][ \A c \in Callers :
        ( /\ LeavesGate(c)
          /\ startedOpen[c]
          /\ state = StateOpen
          /\ Since(lastFailure, now) < config.Timeout )
        => /\ pc'[c] = "idle"
           /\ lastStep'.ret = "BreakerOpen"
           /\ Code(lastStep'.ret) = "Unavailable"
           /\ UNCHANGED <<state, failures, successes, lastFailure>>
    ]_vars

\* C3: the breaker leaves Open only for HalfOpen, only in the step of a call
\* attempt, only when at least Timeout has elapsed since the breaker's most
\* recent qualifying failure; the step resets successes to 0 and the call
\* goes on to the invoker.
C3_HalfOpenOnlyAfterTimeout ==
  [][ state = StateOpen /\ state' # StateOpen =>
        /\ state' = StateHalfOpen
        /\ \E c \in Callers : pc[c] = "lock" /\ pc'[c] = "invoke"
        /\ Since(lastFailure, now) >= config.Timeout
        /\ successes' = 0
    ]_vars

\* C4: when a call completes with a qualifying failure while the breaker is
\* HalfOpen, the breaker is Open right after, with failures = 0 and
\* lastFailure = the completion time, whatever successes was.
C4_HalfOpenFailureOpens ==
  [][ \A c \in Callers :
        Completes(c) /\ Qualifying(err[c]) /\ state = StateHalfOpen
        => /\ state' = StateOpen
           /\ failures' = 0
           /\ lastFailure' = now
    ]_vars

\* C4 witness: a qualifying failure has just completed on a HalfOpen breaker
\* that had already counted a success.
C4_Witness ==
  /\ lastStep.op = "failure" /\ lastStep.from = StateHalfOpen
  /\ successes >= 1
  /\ state = StateOpen /\ failures = 0 /\ lastFailure = now /\ now > 0

\* C5: a HalfOpen breaker becomes Closed exactly in the step in which the
\* number of successful completions since it entered HalfOpen reaches
\* SuccessThreshold; with fewer it stays HalfOpen.
C5_ClosesAtSuccessThreshold ==
  [][ /\ (state = StateHalfOpen /\ state' = StateClosed =>
            /\ \E c \in Callers : Completes(c) /\ err[c] = "OK"
            /\ halfOpenSucc' = config.SuccessThreshold)
      /\ (state = StateHalfOpen /\ (\E c \in Callers : Completes(c) /\ err[c] = "OK") =>
            /\ halfOpenSucc' = halfOpenSucc + 1
            /\ (halfOpenSucc' >= config.SuccessThreshold => state' = StateClosed)
            /\ (halfOpenSucc' < config.SuccessThreshold => state' = StateHalfOpen))
      /\ (state' = StateHalfOpen => halfOpenSucc' < config.SuccessThreshold)
    ]_vars

\* C5 witness: with SuccessThreshold = 2 the second success since HalfOpen
\* was entered has just completed and the breaker is Closed.
C5_Witness ==
  /\ config.SuccessThreshold = 2
  /\ lastStep.op = "success" /\ lastStep.from = StateHalfOpen
  /\ halfOpenSucc = 2
  /\ state = StateClosed


(***************************************************************************)
(* Retry interceptor: properties.                                          *)
(***************************************************************************)

\* The first n invocations all failed with a retryable code.
AllRetryable(n) == \A i \in 1..n : Retryable(outcomes[i])

\* C6: when attempts 1..k-1 fail with a retryable code and attempt k
\* succeeds (k <= MaxAttempts), the interceptor has made exactly k
\* invocations, has returned nil, and makes no invocation after the success:
\* a success is always the last invocation and ends the call at once.
C6_SuccessAfterRetries ==
  \A k \in 1..Len(outcomes) :
    outcomes[k] = Nil =>
      /\ k = Len(outcomes)
      /\ k = attempt
      /\ k <= rcfg.MaxAttempts
      /\ AllRetryable(k - 1)
      /\ rpc = "done"
      /\ rret = Nil

\* C6 witness: MaxAttempts = 3, two retryable failures, then a success.
C6_Witness ==
  /\ rcfg.MaxAttempts = 3
  /\ Len(outcomes) = 3
  /\ AllRetryable(2)
  /\ outcomes[3] = Nil
  /\ rpc = "done" /\ rret = Nil

\* C7: the loop stops at the first attempt whose error is not retryable:
\* that attempt is the last invocation, its error is returned unchanged, and
\* neither a backoff sleep nor a retry metric follows it (sleeps and metrics
\* are those of the earlier attempts only).
C7_NonRetryableStops ==
  \A k \in 1..Len(outcomes) :
    outcomes[k] # Nil /\ ~Retryable(outcomes[k]) =>
      /\ k = Len(outcomes)
      /\ rpc = "done"
      /\ rret = outcomes[k]
      /\ rret.id = k
      /\ Len(sleepLog) = k - 1
      /\ retryCount = (IF rmetrics THEN k - 1 ELSE 0)

\* C7 witness: a retryable failure, then a non-retryable status error,
\* with metrics on.
C7_Witness ==
  /\ rmetrics
  /\ Len(outcomes) = 2
  /\ Retryable(outcomes[1])
  /\ outcomes[2] = StatusErr("Internal", 2)
  /\ rpc = "done" /\ rret = outcomes[2]
  /\ retryCount = 1 /\ Len(sleepLog) = 1

\* C8: with MaxAttempts = N >= 1 there are never more than N invocations;
\* when all N fail with retryable codes the call has slept N-1 times and
\* returns the N-th error itself; and a call whose context never ended and
\* that saw only retryable failures returns only after all N.
C8_ExhaustedReturnsLastError ==
  rcfg.MaxAttempts >= 1 =>
    /\ Len(outcomes) <= rcfg.MaxAttempts
    /\ (Len(outcomes) = rcfg.MaxAttempts /\ AllRetryable(rcfg.MaxAttempts) =>
          /\ rpc = "done"
          /\ rret = outcomes[rcfg.MaxAttempts]
          /\ rret.id = rcfg.MaxAttempts
          /\ Len(sleepLog) = rcfg.MaxAttempts - 1)
    /\ (rpc = "done" /\ ctx = "active" /\ AllRetryable(Len(outcomes)) =>
          Len(outcomes) = rcfg.MaxAttempts)

\* C8 witness: MaxAttempts = 3, three retryable failures, no cancellation.
C8_Witness ==
  /\ rcfg.MaxAttempts = 3
  /\ ctx = "active"
  /\ Len(outcomes) = 3 /\ AllRetryable(3)
  /\ rpc = "done" /\ rret = outcomes[3]
  /\ Len(sleepLog) = 2

\* C9: once the context ends while the interceptor is parked in a backoff
\* sleep, no further invocation is made (the invocations stay those made
\* before the sleep) and the call returns ctx.Err(), not the last error.
C9_CancelDuringSleep ==
  cancelledInSleep =>
    /\ rpc \in {"select", "done"}
    /\ Len(outcomes) = Len(sleepLog)
    /\ (rpc = "done" => rret = CtxErr(ctx) /\ rret # lastErr)

\* C9 witness: the deadline fired during the second sleep and the call has
\* returned the context's error.
C9_Witness ==
  /\ cancelledInSleep
  /\ ctx = "DeadlineExceeded"
  /\ Len(sleepLog) = 2 /\ Len(outcomes) = 2
  /\ rpc = "done" /\ rret = CtxErr("DeadlineExceeded")
  /\ lastErr = outcomes[2]

(***************************************************************************)
(* Connection registry: properties.                                        *)
(***************************************************************************)

\* C10: in every reachable state, every handle that the registry has dialed
\* and that is not closed is the handle tracked in the map for its service,
\* so no service has two live handles and a handle that is replaced is
\* closed, not leaked.
C10_LiveHandleIsTracked ==
  /\ \A h \in Handles : Live(h) => connections[hsvc[h]] = h
  /\ \A h1, h2 \in Handles :
       Live(h1) /\ Live(h2) /\ hsvc[h1] = hsvc[h2] => h1 = h2

\* An acquire has just returned a fresh handle after closing the handle that
\* another caller installed between its shared read and its re-check.
C10_Witness ==
  /\ regLast.op = "acquire"
  /\ regLast.res = "conn"
  /\ regLast.raced
  /\ regLast.replaced # NoHandle
  /\ hstate[regLast.replaced] = "Shutdown"
  /\ Live(regLast.h)
  /\ \E s \in Services : connections[s] = regLast.h

\* Caller c leaves position p of GetConnection in this step.
Leaves(c, p) == gpc[c] = p /\ gpc'[c] # p

\* The call of caller c returns the handle h in this step without dialing.
ReturnsCached(c, h) ==
  /\ gpc'[c] = "idle"
  /\ regLast'.op = "acquire" /\ regLast'.res = "conn" /\ regLast'.h = h
  /\ UNCHANGED <<nextHandle, connections, hstate, mu>>

C12_AddressNotFound ==
  [][ /\ \A c \in RegCallers, s \in Services :
           GetBegin(c, s, NoAddress) /\ addresses[s] = NoAddress
           => /\ regLast'.op = "acquire" /\ regLast'.res = "AddressNotFound"
              /\ regLast'.h = NoHandle
              /\ gpc'[c] = "idle"
              /\ UNCHANGED <<addresses, connections, nextHandle, hstate, mu>>
      /\ regLast'.op = "releaseAll" =>
           \A s \in Services : addresses'[s] = NoAddress
      /\ regLast'.res = "AddressNotFound" =>
           \E c \in RegCallers, s \in Services :
             GetBegin(c, s, NoAddress) /\ addresses[s] = NoAddress
    ]_vars

\* Service 1 was registered with an address by the first acquire, a
\* releaseAll cleared it, and the second acquire, with the empty address, has
\* just returned AddressNotFound.
C12_Witness ==
  /\ regLast.op = "acquire" /\ regLast.res = "AddressNotFound"
  /\ acquires = 2
  /\ namedServices = 1
  /\ namedAddresses = 1
  /\ addresses[1] = NoAddress
  /\ nextHandle = 2

\* C13: when the dial of an acquire fails, the acquire returns DialFailed,
\* its service has no tracked handle afterwards (the stale handle it was
\* replacing is closed and is no entry of the map), the lock is free again
\* and the address map is as it was; and an acquire that finds no handle for
\* its service at the re-check always goes on to dial.
C13_DialFailed ==
  [][ \A c \in RegCallers :
        /\ GetDial(c, FALSE)
           => /\ regLast'.op = "acquire" /\ regLast'.res = "DialFailed"
              /\ regLast'.h = NoHandle
              /\ connections'[gsvc[c]] = NoHandle
              /\ connections' = connections
              /\ replacing.h # NoHandle =>
                    /\ hstate'[replacing.h] = "Shutdown"
                    /\ \A s \in Services : connections'[s] # replacing.h
              /\ addresses' = addresses
              /\ UNCHANGED <<nextHandle, hstate>>
              /\ mu' = 0 /\ gpc'[c] = "idle"
        /\ Leaves(c, "fast") /\ gconn[c] = NoHandle => gpc'[c] = "wlock"
        /\ Leaves(c, "wlock") /\ connections[gsvc[c]] = NoHandle
           => gpc'[c] = "dial" /\ mu' = c
    ]_vars

\* The second acquire of service 1 closed and removed the stale handle of the
\* first, its dial failed and it has just returned DialFailed: no handle is
\* tracked and the address is still stored.
C13_Witness ==
  /\ regLast.op = "acquire" /\ regLast.res = "DialFailed"
  /\ regLast.replaced = 1
  /\ hstate[1] = "Shutdown"
  /\ namedServices = 1
  /\ connections[1] = NoHandle
  /\ addresses[1] # NoAddress
  /\ mu = 0

\* C14: release(s) removes the entry of s and closes its handle, once; a
\* release that finds no entry returns ok and closes and changes nothing; no
\* handle is ever closed twice by the registry.  A release leaves the
\* address map and the entries and handles of the other services as they
\* were, so that a later acquire of s with the empty address resolves to the
\* stored address and its dial goes to that address.
C14_ReleaseIdempotent ==
  [][ /\ \A s \in Services :
           CloseConnection(s) =>
             LET conn == connections[s] IN
               /\ regLast'.op = "release"
               /\ connections'[s] = NoHandle
               /\ \A t \in Services \ {s} : connections'[t] = connections[t]
               /\ addresses' = addresses
               /\ UNCHANGED <<nextHandle, mu, gpc>>
               /\ \A h \in Handles \ {conn} :
                    hstate'[h] = hstate[h] /\ closeCalls'[h] = closeCalls[h]
               /\ conn # NoHandle =>
                    /\ closeCalls'[conn] = closeCalls[conn] + 1
                    /\ hstate'[conn] = "Shutdown"
                    /\ regLast'.res = (IF hstate[conn] = "Shutdown" THEN "error"
                                       ELSE "ok")
               /\ conn = NoHandle =>
                    /\ regLast'.res = "ok"
                    /\ UNCHANGED <<connections, hstate, closeCalls>>
      /\ \A h \in Handles : closeCalls'[h] <= 1
      /\ \A c \in RegCallers, s \in Services :
           GetBegin(c, s, NoAddress) /\ addresses[s] # NoAddress
           => gpc'[c] = "lookup" /\ gsvc'[c] = s /\ gaddr'[c] = addresses[s]
      /\ \A c \in RegCallers :
           GetDial(c, TRUE) => /\ connections'[gsvc[c]] = nextHandle
                               /\ haddr'[nextHandle] = gaddr[c]
    ]_vars

\* Service 1 was acquired once, a first release closed its handle, and a
\* second release has just returned ok without finding an entry; the address
\* of the service is still stored.
C14_Witness ==
  /\ regLast.op = "release" /\ regLast.res = "ok" /\ regLast.h = NoHandle
  /\ acquires = 1
  /\ namedServices = 1
  /\ closeCalls[1] = 1
  /\ hstate[1] = "Shutdown"
  /\ connections[1] = NoHandle
  /\ addresses[1] # NoAddress

\* C15: Close calls conn.Close() on every tracked handle, whether or not an
\* earlier close of the same loop failed, and when it returns no handle is
\* tracked (GetConnectionsCount is 0) and no address is stored.
C15_ReleaseAllClosesAll ==
  [][\A ord \in IterationOrders :
       Close(ord) =>
         /\ \A s \in Services :
              connections[s] # NoHandle =>
                /\ closeCalls'[connections[s]] = closeCalls[connections[s]] + 1
                /\ hstate'[connections[s]] = "Shutdown"
         /\ GetConnectionsCount' = 0
         /\ \A s \in Services : addresses'[s] = NoAddress]_vars

\* Close has returned after both closes of its loop failed: the second one
\* was attempted after the first one had failed.
C15_Witness ==
  /\ regLast.op = "releaseAll" /\ regLast.res = "error"
  /\ regLast.failed = {1, 2}
  /\ closeCalls[1] = 1 /\ closeCalls[2] = 1
  /\ GetConnectionsCount = 0
  /\ \A s \in Services : addresses[s] = NoAddress

\* C16: when several closes of Close fail, Close returns the error of the
\* first failing close in the order the loop visited the handles.
C16_ReturnsFirstFailure ==
  [][\A ord \in IterationOrders :
       Close(ord) /\ FailingCloses(ord) # <<>> =>
         /\ regLast'.res = "error"
         /\ regLast'.h = connections[Head(FailingCloses(ord))]]_vars

\* C19: no caller holds the registry's exclusive lock while its dial is in
\* progress; the lock is taken only to install the dialed handle.
C19_NoLockDuringDial ==
  \A c \in RegCallers : gpc[c] = "dial" => mu = 0

\* C20: HealthCheck never fails; its report has an entry exactly for the
\* services with a stored address or a tracked handle; the entry of a service
\* without a handle is NotConnected and unhealthy; the entry of a service with
\* a handle names the handle's transport state and is healthy exactly when
\* that state is Ready.
C20_HealthReport ==
  [][HealthCheck =>
       /\ regLast'.op = "health" /\ regLast'.res = "ok"
       /\ \A s \in Services :
            LET e == regLast'.report[s]
                conn == connections[s] IN
            /\ e.present <=> (addresses[s] # NoAddress \/ conn # NoHandle)
            /\ e.present /\ conn = NoHandle =>
                 e.State = "NotConnected" /\ ~e.Healthy
            /\ e.present /\ conn # NoHandle =>
                 /\ e.State = StateString(hstate[conn])
                 /\ e.Healthy <=> hstate[conn] = "Ready"]_vars

\* HealthCheck has reported a tracked Idle handle as unhealthy and a service
\* with an address but no handle as NotConnected.
C20_Witness ==
  /\ regLast.op = "health"
  /\ \E s, t \in Services :
       /\ connections[s] # NoHandle /\ hstate[connections[s]] = "Idle"
       /\ regLast.report[s].State = "IDLE" /\ ~regLast.report[s].Healthy
       /\ connections[t] = NoHandle /\ addresses[t] # NoAddress
       /\ regLast.report[t].State = "NotConnected" /\ ~regLast.report[t].Healthy

(***************************************************************************)
(* Properties of the interceptor chain.                                    *)
(***************************************************************************)
\* A logical call has returned to its caller.
Returned == dir = "idle" /\ calls > 0

\* The chain holds the metrics, breaker and retry interceptors.
FullChain ==
  toggles.EnableMetrics /\ toggles.EnableCircuitBreaker /\ toggles.EnableRetry

\* The retry loop of the returned call made all its attempts, and every one
\* failed with a code of the retry policy's set.
ExhaustedRetryable ==
  /\ Len(outcomes) = rcfg.MaxAttempts
  /\ \A i \in 1..Len(outcomes) : Retryable(outcomes[i])

\* The returned call succeeded at its last attempt.
SucceededAtLast == outcomes # <<>> /\ outcomes[Len(outcomes)] = Nil

C18_SingleBreakerPerKey ==
  \A i, j \in Instances : bkey[i] # 0 /\ bkey[i] = bkey[j] => i = j

(***************************************************************************)
(* Properties of construction.                                             *)
(***************************************************************************)
\* Some field Validate reads is not positive.
SomeFieldNotPositive(c) ==
  \/ c.MaxMsgSize <= 0
  \/ c.KeepAliveTime <= 0
  \/ c.KeepAliveTimeout <= 0
  \/ c.MaxReconnectDelay <= 0
  \/ c.MinConnectTimeout <= 0

\* C21: Validate returns an error exactly when one of MaxMsgSize,
\* KeepAliveTime, KeepAliveTimeout, MaxReconnectDelay, MinConnectTimeout is
\* <= 0; NewConnectionManager returns a manager exactly when the given
\* configuration (DefaultConfig for nil) passes validation, and no manager
\* together with an error otherwise.
C21_ValidateIff ==
  /\ vret # "none" => (vret # "nil" <=> SomeFieldNotPositive(mcfg.c))
  /\ nret.op = "new" =>
       /\ nret.cm <=> ~SomeFieldNotPositive(EffectiveConfig(mcfg))
       /\ nret.cm <=> nret.err = "nil"
       /\ mcfg.nil => nret.cm

\* A configuration whose only non-positive field is a zero MinConnectTimeout
\* has been rejected by Validate and by NewConnectionManager.
C21_Witness ==
  /\ ~mcfg.nil
  /\ mcfg.c = [MaxMsgSize |-> 1, KeepAliveTime |-> 1, KeepAliveTimeout |-> 1,
               MaxReconnectDelay |-> 1, MinConnectTimeout |-> 0]
  /\ vret # "none" /\ vret # "nil"
  /\ nret.op = "new" /\ ~nret.cm

(***************************************************************************)
(* Further properties of the circuit breaker.                              *)
(***************************************************************************)
\* C22: the step that opens a Closed breaker, its failure count having
\* reached FailureThreshold, resets the failure count to 0.
C22_OpeningResetsFailures ==
  [][state = StateClosed /\ state' = StateOpen => failures' = 0]_vars

\* C23: a call that completes with an error whose code is not in the
\* breaker's retryable-code set leaves state, failures, successes and
\* lastFailure as they were, whatever the state, and returns that error.
C23_OtherCodesIgnored ==
  [][\A c \in Callers :
       CallComplete(c) /\ err[c] # "OK" /\ Code(err[c]) \notin DefaultBreakerCodes =>
         /\ state' = state
         /\ failures' = failures
         /\ successes' = successes
         /\ lastFailure' = lastFailure
         /\ lastStep'.ret = err[c]]_vars

\* A call has completed with Internal on a HalfOpen breaker that had counted
\* a success, and the breaker is as it was.
C23_Witness ==
  /\ lastStep.ret = "Internal"
  /\ lastStep.from = StateHalfOpen
  /\ state = StateHalfOpen
  /\ successes = 1
  /\ \A c \in Callers : pc[c] = "idle"

(***************************************************************************)
(* Further properties of the retry interceptor.                            *)
(***************************************************************************)
\* min(B0 * M^(k-1), Bmax) for the configuration cfg.
RECURSIVE ClaimedSleep(_, _)
ClaimedSleep(k, cfg) ==
  IF k = 1
  THEN IF cfg.InitialBackoff > cfg.MaxBackoff THEN cfg.MaxBackoff
       ELSE cfg.InitialBackoff
  ELSE IF ClaimedSleep(k - 1, cfg) * cfg.BackoffMultiplier > cfg.MaxBackoff
       THEN cfg.MaxBackoff
       ELSE ClaimedSleep(k - 1, cfg) * cfg.BackoffMultiplier

\* C24: the sleep after the k-th failed retryable attempt lasts
\* min(B0 * M^(k-1), Bmax); no sleep, the first included, is longer than Bmax.
C24_SleepsAreCapped ==
  \A k \in 1..Len(sleepLog) :
    /\ sleepLog[k] = ClaimedSleep(k, rcfg)
    /\ sleepLog[k] <= rcfg.MaxBackoff

(***************************************************************************)
(* Further properties of the connection registry.                          *)
(***************************************************************************)
\* C25: GetConnection that finds, under the exclusive lock, the service's
\* tracked handle Connecting, in TransientFailure or Shutdown closes that
\* handle (once in all), removes it from the map, dials the address it
\* resolved for the service and then tracks and returns the new handle;
\* GetConnection closes no handle that is Ready or Idle at that check.
C25_StaleHandleReplaced ==
  [][\A c \in RegCallers :
       LET s == gsvc[c]
           conn == connections[s] IN
       /\ GetLocked(c) /\ conn # NoHandle
            /\ hstate[conn] \in {"Connecting", "TransientFailure", "Shutdown"} =>
            /\ closeCalls[conn] = 0 /\ closeCalls'[conn] = 1
            /\ hstate'[conn] = "Shutdown"
            /\ connections'[s] = NoHandle
            /\ gpc'[c] = "dial" /\ replacing'.h = conn
       /\ GetLocked(c) /\ conn # NoHandle /\ hstate[conn] \in {"Ready", "Idle"} =>
            /\ closeCalls' = closeCalls /\ hstate' = hstate
            /\ connections' = connections
            /\ regLast'.res = "conn" /\ regLast'.h = conn
       /\ GetLocked(c) \/ (\E ok \in BOOLEAN : GetDial(c, ok)) =>
            \A h \in Handles : closeCalls'[h] > closeCalls[h] =>
              hstate[h] \notin {"Ready", "Idle"}
       /\ GetDial(c, TRUE) /\ replacing.h # NoHandle =>
            /\ closeCalls'[replacing.h] = 1
            /\ regLast'.res = "conn" /\ regLast'.h = nextHandle
            /\ regLast'.replaced = replacing.h
            /\ connections'[s] = nextHandle
            /\ haddr'[nextHandle] = gaddr[c] /\ gaddr[c] # NoAddress
            /\ hstate'[nextHandle] \in LiveStates]_vars

\* GetConnection has returned handle 2, dialed in place of handle 1, which
\* it found stale and closed.
C25_Witness ==
  /\ regLast.op = "acquire" /\ regLast.res = "conn"
  /\ regLast.h = 2 /\ regLast.replaced = 1
  /\ closeCalls[1] = 1 /\ hstate[1] = "Shutdown"
  /\ \E s \in Services : connections[s] = 2
  /\ Live(2)

\* C26: GetConnection(s, a) with a non-empty a stores a as the address of s
\* when it starts, and no later step of the call, whatever it returns,
\* changes the address map; GetConnection with the empty address never
\* changes the map and resolves to the address stored for s, which is the
\* one most recently supplied (only Close removes addresses); the dial goes
\* to the address the call resolved.
C26_AddressOverwritten ==
  [][ /\ \A c \in RegCallers, s \in Services, a \in Addresses :
           GetBegin(c, s, a) =>
             /\ addresses'[s] = a
             /\ \A t \in Services \ {s} : addresses'[t] = addresses[t]
             /\ gaddr'[c] = a
      /\ \A c \in RegCallers, s \in Services :
           GetBegin(c, s, NoAddress) =>
             /\ addresses' = addresses
             /\ addresses[s] # NoAddress => gaddr'[c] = addresses[s]
      /\ \A c \in RegCallers :
           GetLookup(c) \/ GetFastPath(c) \/ GetLocked(c)
             \/ (\E ok \in BOOLEAN : GetDial(c, ok))
           => addresses' = addresses
      /\ \A s \in Services :
           addresses'[s] # addresses[s] =>
             \/ \E c \in RegCallers : GetBegin(c, s, addresses'[s])
             \/ \E ord \in IterationOrders : Close(ord)
      /\ \A c \in RegCallers :
           GetDial(c, TRUE) => haddr'[nextHandle] = gaddr[c]
    ]_vars

\* The second GetConnection for service 1 supplied address 2 and has
\* returned the cached handle, which was dialed to address 1; the stored
\* address is address 2.
C26_Witness ==
  /\ regLast.op = "acquire" /\ regLast.res = "conn" /\ regLast.h = 1
  /\ acquires = 2
  /\ connections[1] = 1 /\ haddr[1] = 1
  /\ addresses[1] = 2

\* The place of a stage in the order logging, metrics, breaker, retry,
\* transport.
Rank(name) ==
  CASE name = "logging" -> 1
    [] name = "metrics" -> 2
    [] name = "breaker" -> 3
    [] name = "retry" -> 4
    [] OTHER -> 5

\* The stages entered so far in this logical call.
Entered == {entered[i] : i \in 1..Len(entered)}

\* The breaker was entered by the returned call and rejected it: the call
\* never reached the breaker's bookkeeping.
Rejected == Returned /\ "breaker" \in Entered /\ bookkept = <<>>

\* C27: a call the breaker rejects enters neither the retry loop nor the
\* transport and emits no retry metric, while an enabled metrics stage
\* records exactly one outcome for it, with the unavailable code; and with
\* any combination of toggles exactly the enabled stages are entered, in
\* the order logging, metrics, breaker, retry, transport.
C27_RejectionAndOrder ==
  /\ Rejected =>
        /\ "retry" \notin Entered /\ "transport" \notin Entered
        /\ outcomes = <<>> /\ retryCount = 0 /\ sleepLog = <<>>
        /\ cres = BreakerOpenErr
        /\ toggles.EnableMetrics => recorded = <<"Unavailable">>
  /\ \A i, j \in 1..Len(entered) :
        i < j => /\ Rank(entered[i]) <= Rank(entered[j])
                 /\ entered[i] = entered[j] => entered[i] = "transport"
  /\ Returned =>
        /\ "logging" \in Entered <=> toggles.EnableLogging
        /\ "metrics" \in Entered <=> toggles.EnableMetrics
        /\ "breaker" \in Entered <=> toggles.EnableCircuitBreaker
        /\ "retry" \in Entered <=> toggles.EnableRetry /\ ~Rejected

\* A call rejected by the breaker has returned through a chain that holds
\* every stage.
C27_Witness ==
  /\ Rejected /\ FullChain /\ toggles.EnableLogging
  /\ entered = <<"logging", "metrics", "breaker">>
  /\ recorded = <<"Unavailable">>

\* No caller is inside the closure.
IcptIdle == \A c \in Callers : ipc[c] = "idle"

\* C28: every call through the breaker closure exports the breaker's state
\* as 0 (Closed), 1 (Open) or 2 (HalfOpen), and whenever no call is in
\* flight after at least one call has returned, the code last exported is
\* the code of the breaker's current state.
C28_GaugeFollowsState ==
  /\ ilast.op = "return" => gauge \in {0, 1, 2}
  /\ ilast.op = "return" /\ IcptIdle => gauge = StateCode(state)

\* C29 as stated: an admitted call returns exactly what the wrapped
\* invocation returned, and the closure makes an error of its own only
\* when the breaker rejects the call.
C29_AsStated ==
  ilast.op = "return" =>
    /\ ilast.admitted => ilast.ret = ilast.inner
    /\ ilast.ret \notin Outcomes => ~ilast.admitted /\ ilast.ret = "BreakerOpen"

\* C29: an admitted call returns exactly what the wrapped invocation
\* returned, except that a success with a nil reply is returned as the
\* closure's own Internal error; a rejected call returns the breaker's
\* error; the closure makes no other error.
C29_PassThroughUnlessReplyNil ==
  ilast.op = "return" =>
    /\ ilast.admitted /\ ~(ilast.inner = "OK" /\ ilast.replyNil)
         => ilast.ret = ilast.inner /\ ilast.inner \in Outcomes
    /\ ilast.admitted /\ ilast.inner = "OK" /\ ilast.replyNil
         => ilast.ret = ReplyNilErr
    /\ ~ilast.admitted => ilast.ret = "BreakerOpen"

\* An admitted call whose downstream invocation succeeded has returned
\* with a nil reply.
C29_Witness ==
  /\ ilast.op = "return" /\ ilast.admitted
  /\ ilast.inner = "OK" /\ ilast.replyNil /\ ilast.ret = ReplyNilErr

\* From this step on every downstream invocation returns nil.
InvokerSucceeds ==
  \A c \in Callers : pc[c] = "invoke" /\ pc'[c] = "complete" => err'[c] = "OK"

\* A call is issued.
CallIssued == \E c \in Callers : pc[c] = "idle" /\ pc'[c] = "check"

\* C30: if from some point on every downstream invocation succeeds and
\* calls keep being issued, with time advancing and every begun call run
\* to its return, an Open breaker eventually becomes Closed.
C30_OpenEventuallyCloses ==
  (<>[][InvokerSucceeds]_vars /\ []<><<CallIssued>>_vars)
    => ((state = StateOpen) ~> (state = StateClosed))

\* A successful call has closed a HalfOpen breaker.
C30_Witness ==
  /\ lastStep.op = "success" /\ lastStep.from = StateHalfOpen
  /\ state = StateClosed

\* HealthCheck, second loop: the service has a tracked handle and no
\* stored address.
Orphaned(s) == connections[s] # NoHandle /\ addresses[s] = NoAddress

\* C31 as stated: in every reachable state each service with a tracked
\* handle has a stored address.
C31_NoOrphanedHandle == \A s \in Services : ~Orphaned(s)

\* C31: only releaseAll removes a stored address, and a service comes to
\* have a tracked handle without a stored address only in the step in which
\* an acquire that was in flight, holding the address it was given, installs
\* the handle it dialed to that address.
C31_OrphanedOnlyAfterClose ==
  [][/\ \A s \in Services :
          addresses[s] # NoAddress /\ addresses'[s] = NoAddress
            => regLast'.op = "releaseAll"
     /\ \A s \in Services :
          ~Orphaned(s) /\ Orphaned(s)'
            => /\ regLast'.op = "acquire" /\ regLast'.res = "conn"
               /\ regLast'.h = connections'[s]
               /\ haddr'[connections'[s]] # NoAddress
               /\ \E c \in RegCallers :
                    /\ gpc[c] = "dial" /\ mu = c /\ gsvc[c] = s
                    /\ gaddr[c] = haddr'[connections'[s]]]_vars

\* An acquire has installed a handle for a service whose address a
\* releaseAll removed meanwhile.
C31_Witness ==
  /\ regLast.op = "acquire" /\ regLast.res = "conn"
  /\ \E s \in Services : Orphaned(s) /\ regLast.h = connections[s]

\* C32: whenever a handle is tracked for a service, the address it was
\* dialed to is the address stored for that service (so the handle acquire
\* returns for a non-empty address is connected to that address).
C32_HandleAtStoredAddress ==
  \A s \in Services :
    connections[s] # NoHandle => haddr[connections[s]] = addresses[s]

\* C33: for every RetryConfig, MaxAttempts <= 0 included, a call through
\* the retry closure that has returned invoked the wrapped call at least
\* once, and it returned success only if some invocation returned success.
C33_InvokedBeforeSuccess ==
  rpc = "done" =>
    /\ Len(outcomes) >= 1
    /\ rret = Nil => \E i \in 1..Len(outcomes) : outcomes[i] = Nil

\* C34: under any interleaving of concurrent calls on one breaker, the
\* completion of a call that passed the gate while the breaker was not
\* HalfOpen changes neither the state nor the success count of a HalfOpen
\* breaker: only a probe moves it to Closed or back to Open.
C34_OnlyProbesMoveHalfOpen ==
  [][\A c \in Callers :
       pc[c] = "complete" /\ pc'[c] = "idle" /\ state = StateHalfOpen /\ ~probe[c]
         => state' = StateHalfOpen /\ successes' = successes]_vars

=============================================================================
